---- MODULE Spec2Model ----
(***************************************************************************)
(* Heimdall (tapiab/heimdall), src-tauri: the raster tile pipeline.        *)
(*                                                                         *)
(*   gdal/tile_extractor.rs   stretch normaliser, bounds test, compositor  *)
(*   gdal/dataset_cache.rs    the id -> path LRU cache                     *)
(*   commands/raster.rs       the tauri commands (tiles, stats, profiles)  *)
(*   commands/stac.rs         band statistics of remote assets             *)
(*                                                                         *)
(* Numbers.  An f64 sample is an integer count of units of 2^-34, so that  *)
(* the nodata tolerance 1e-10 lies strictly between one and two units and  *)
(* the constant 1.0 is 2^17 * 2^17 units.  NaN and the two infinities are  *)
(* the three sentinels below.  Every subtraction of two such values is     *)
(* exact in f64; the byte computed inside the stretch window is the exact  *)
(* floor, rounding inside the window is not modelled.  Where a result is    *)
(* a rounded quotient or product (histogram edges, tile corners) the model *)
(* rounds as IEEE 754 does, on a shorter significand: see RoundFloat.      *)
(*                                                                         *)
(* Option<T>: None is the empty sequence, Some(x) the one-element one.     *)
(* Result<T,String>: [ok |-> TRUE, val |-> v] or [ok |-> FALSE, err |-> m].*)
(***************************************************************************)
EXTENDS Integers, Sequences, FiniteSets, TLC

VARIABLES
    capacity,    \* DatasetCache: the LruCache's capacity (NonZeroUsize)
    cache,       \* DatasetCache.paths: <<[id, path], ...>>, most recently used first
    clock,       \* history: number of cache calls made so far
    lastUsed,    \* history: id -> clock value of its latest add / successful get_path
    lastOp,      \* history: the latest cache call and what it returned
    pc,          \* per request: position inside its command
    arg,         \* per request: the command and its arguments
    held,        \* per request: the dataset handles it holds open
    res,         \* per request: the Result it returned
    issued,      \* history: number of ids open_raster has generated (uuid v4: never reused)
    call         \* the latest call of a function or whole command: inputs and result

vars == <<capacity, cache, clock, lastUsed, lastOp, pc, arg, held, res, issued, call>>

cacheVars == <<capacity, cache, clock, lastUsed, lastOp>>
appVars == <<pc, arg, held, res, issued>>

-----------------------------------------------------------------------------
(* Option and Result *)

None == <<>>
Some(x) == <<x>>
IsSome(o) == o # <<>>
UnwrapOr(o, d) == IF o = <<>> THEN d ELSE o[1]

Ok(v) == [ok |-> TRUE, val |-> v]
Err(m) == [ok |-> FALSE, err |-> m]

-----------------------------------------------------------------------------
(* f64 values *)

MaxVal == 6

NaN == 9999
PosInf == 9998
NegInf == -9998

NonFinite == {NaN, PosInf, NegInf}
IsFinite(v) == v \notin NonFinite

Abs(n) == IF n < 0 THEN -n ELSE n
Min2(a, b) == IF a < b THEN a ELSE b
Max2(a, b) == IF a > b THEN a ELSE b

\* 1.0 in units of 2^-34 is HalfOne * HalfOne
HalfOne == 131072

\* 1e-10 = 1 / (2^10 * 5^10); in units of 2^-34:  |d| * 2^-34 < 1e-10  <=>  |d| * 5^10 < 2^24
FiveTo10 == 9765625
TwoTo24 == 16777216

\* (a - b).abs() < 1e-10 ; false as soon as an operand is not finite
NearMutOffByOne(a, b) == IsFinite(a) /\ IsFinite(b) /\ Abs(a - b) < 200 /\ Abs(a - b) * FiveTo10 < 2 * TwoTo24
Near(a, b) == IsFinite(a) /\ IsFinite(b) /\ Abs(a - b) < 200 /\ Abs(a - b) * FiveTo10 < TwoTo24

\* nodata.is_some_and(|nd| (val - nd).abs() < 1e-10)
NodataMatch(val, nodata) == IsSome(nodata) /\ Near(val, nodata[1])

-----------------------------------------------------------------------------
(* tile_extractor.rs: StretchParams and apply_stretch *)

\* gamma as <<numerator, denominator>>: 1/2, 1, 2
Gammas == {<<1, 2>>, <<1, 1>>, <<2, 1>>}

StretchEnds == {-996, -2, 0, 2, 4}
Stretches == [min : StretchEnds, max : StretchEnds, gamma : Gammas]

\* x / (den[1] * den[2]) rounded down, x >= 0
DivDen(x, den) == (x \div den[1]) \div den[2]

ISqrt(n) == CHOOSE k \in 0..255 : k * k <= n /\ (k + 1) * (k + 1) > n

\* range: stretch.max - stretch.min when positive, else 1.0
StretchRangeMutUsesMax(stretch) ==
    IF stretch.max > stretch.min /\ stretch.max > 0 THEN <<stretch.max, 1>> ELSE <<HalfOne, HalfOne>>
StretchRange(stretch) ==
    IF stretch.max > stretch.min THEN <<stretch.max - stretch.min, 1>> ELSE <<HalfOne, HalfOne>>

\* (clamped.powf(1.0 / gamma) * 255.0).clamp(0.0, 255.0) as u8,
\* for clamped = num / den clamped to [0, 1]
\* for num >= 0
UnitByteMutGammaPower(num, den, gamma) ==
    IF DivDen(num, den) >= 1 THEN 255
    ELSE CASE gamma = <<1, 1>> -> DivDen(255 * num, den)
           [] gamma = <<2, 1>> -> DivDen(DivDen(255 * num * num, den), den)
           [] gamma = <<1, 2>> -> ISqrt(DivDen(65025 * num, den))
UnitByte(num, den, gamma) ==
    IF DivDen(num, den) >= 1 THEN 255
    ELSE CASE gamma = <<1, 1>> -> DivDen(255 * num, den)
           [] gamma = <<1, 2>> -> DivDen(DivDen(255 * num * num, den), den)
           [] gamma = <<2, 1>> -> ISqrt(DivDen(65025 * num, den))

GammaByteMutAbs(num, den, gamma) == UnitByte(Abs(num), den, gamma)
GammaByte(num, den, gamma) == IF num <= 0 THEN 0 ELSE UnitByte(num, den, gamma)

\* the first test of apply_stretch: the sample is invalid
InvalidSampleMutZeroValid(val, nodata) == NodataMatch(val, nodata) \/ ~IsFinite(val)
InvalidSample(val, nodata) == val = 0 \/ NodataMatch(val, nodata) \/ ~IsFinite(val)

apply_stretch(val, stretch, nodata) ==
    IF InvalidSample(val, nodata) THEN None
    ELSE Some(GammaByte(val - stretch.min, StretchRange(stretch), stretch.gamma))

Samples == (-MaxVal..MaxVal) \cup NonFinite
Nodatas == {None, Some(-1), Some(3), Some(NaN)}

-----------------------------------------------------------------------------
(* dataset_cache.rs: DatasetCache over lru::LruCache<String, String> *)

DefaultCapacity == 10

MaxCapacityArg == 2
MaxIds == 3
MaxOps == 5

CapacityArgs == 0..MaxCapacityArg
CacheIds == 1..MaxIds
Paths == {"a.tif", "b.tif"}

\* DatasetCache::new: NonZeroUsize::new(capacity).unwrap_or(10)
NewCapacity(requested) == IF requested = 0 THEN DefaultCapacity ELSE requested

CacheIdSet(c) == {c[i].id : i \in 1..Len(c)}
Contains(c, id) == id \in CacheIdSet(c)
EntryOf(c, id) == c[CHOOSE i \in 1..Len(c) : c[i].id = id]
Without(c, id) == SelectSeq(c, LAMBDA e : e.id # id)

\* LruCache::get(id).cloned(): the value returned
PeekPath(c, id) == IF Contains(c, id) THEN Some(EntryOf(c, id).path) ELSE None

\* LruCache::get: a hit moves the entry to the most-recently-used end
AfterGetMutNoPromote(c, id) == c
AfterGet(c, id) == IF Contains(c, id) THEN <<EntryOf(c, id)>> \o Without(c, id) ELSE c

\* LruCache::put: update and promote a present key; else evict the
\* least recently used entry of a full cache and insert
AfterPutMutEvictNewest(c, cap, id, path) ==
    IF Contains(c, id) THEN <<[id |-> id, path |-> path]>> \o Without(c, id)
    ELSE IF Len(c) >= cap THEN <<[id |-> id, path |-> path]>> \o SubSeq(c, 2, Len(c))
    ELSE <<[id |-> id, path |-> path]>> \o c
AfterPutMutKeepOldPath(c, cap, id, path) ==
    IF Contains(c, id) THEN <<EntryOf(c, id)>> \o Without(c, id)
    ELSE IF Len(c) >= cap THEN <<[id |-> id, path |-> path]>> \o SubSeq(c, 1, cap - 1)
    ELSE <<[id |-> id, path |-> path]>> \o c
AfterPut(c, cap, id, path) ==
    IF Contains(c, id) THEN <<[id |-> id, path |-> path]>> \o Without(c, id)
    ELSE IF Len(c) >= cap THEN <<[id |-> id, path |-> path]>> \o SubSeq(c, 1, cap - 1)
    ELSE <<[id |-> id, path |-> path]>> \o c

\* LruCache::pop
AfterPop(c, id) == Without(c, id)

\* history of uses, kept for the ids that are cached
Touch(used, c, id) == [i \in CacheIdSet(c) |-> IF i = id THEN clock + 1 ELSE used[i]]

\* DatasetCache::get_path
GetPath(id) ==
    /\ clock < MaxOps
    /\ cache' = AfterGet(cache, id)
    /\ lastOp' = [op |-> "get_path", id |-> id, path |-> "", ret |-> PeekPath(cache, id),
                  dropped |-> CacheIdSet(cache) \ CacheIdSet(cache')]
    /\ clock' = clock + 1
    /\ lastUsed' = Touch(lastUsed, cache', id)
    /\ UNCHANGED <<capacity, appVars, call>>

\* DatasetCache::add
Add(id, path) ==
    /\ clock < MaxOps
    /\ cache' = AfterPut(cache, capacity, id, path)
    /\ lastOp' = [op |-> "add", id |-> id, path |-> path, ret |-> None,
                  dropped |-> CacheIdSet(cache) \ CacheIdSet(cache')]
    /\ clock' = clock + 1
    /\ lastUsed' = Touch(lastUsed, cache', id)
    /\ UNCHANGED <<capacity, appVars, call>>

\* DatasetCache::remove
Remove(id) ==
    /\ clock < MaxOps
    /\ cache' = AfterPop(cache, id)
    /\ lastOp' = [op |-> "remove", id |-> id, path |-> "", ret |-> None,
                  dropped |-> CacheIdSet(cache) \ CacheIdSet(cache')]
    /\ clock' = clock + 1
    /\ lastUsed' = Touch(lastUsed, cache', 0)
    /\ UNCHANGED <<capacity, appVars, call>>

\* the record of DatasetCache::new(requested)
NewOp(requested) == [op |-> "new", id |-> requested, path |-> "", ret |-> None, dropped |-> {}]

\* no request in flight, no call made
IdleApp ==
    /\ pc = <<>> /\ arg = <<>> /\ held = <<>> /\ res = <<>>
    /\ issued = 0
IdleCall == call = [fn |-> "none"]
EmptyCache(requested) ==
    /\ capacity = NewCapacity(requested)
    /\ cache = <<>>
    /\ clock = 0
    /\ lastUsed = <<>>
    /\ lastOp = NewOp(requested)

InitCache == (\E requested \in CapacityArgs : EmptyCache(requested)) /\ IdleApp /\ IdleCall

NextCache ==
    \/ \E id \in CacheIds, path \in Paths : Add(id, path)
    \/ \E id \in CacheIds : GetPath(id)
    \/ \E id \in CacheIds : Remove(id)

SpecCache == InitCache /\ [][NextCache]_vars

\* the cached id whose latest add or successful get_path is the oldest
OldestUse(c, used) == CHOOSE id \in CacheIdSet(c) : \A j \in CacheIdSet(c) : used[id] <= used[j]

C7_Step ==
    LET before == CacheIdSet(cache)
        after == CacheIdSet(cache')
    IN  /\ capacity' = capacity
        /\ (lastOp'.op = "add" /\ lastOp'.id \notin before /\ Len(cache) = capacity)
              => /\ before \ after = {OldestUse(cache, lastUsed)}
                 /\ after = (before \ {OldestUse(cache, lastUsed)}) \cup {lastOp'.id}
        /\ (lastOp'.op = "add" /\ (lastOp'.id \in before \/ Len(cache) < capacity))
              => after = before \cup {lastOp'.id}
        /\ lastOp'.op = "get_path" => after = before
        /\ lastOp'.op = "remove" => after = before \ {lastOp'.id}

\* C7: a DatasetCache of capacity C (the requested capacity, 10 when 0 is requested)
\* never holds more than C entries under any sequence of add, get_path and remove;
\* an add of a new id to a full cache evicts exactly one entry, the one used least
\* recently; and add and get_path drop no entry while fewer than C are held.
C7_CapacityAndLruEviction ==
    /\ [](/\ Len(cache) <= capacity
          /\ Cardinality(CacheIdSet(cache)) = Len(cache)
          /\ lastOp.op = "new" => capacity = (IF lastOp.id = 0 THEN 10 ELSE lastOp.id))
    /\ [][C7_Step]_vars

\* an add has just evicted an entry of a full cache
C7_Witness ==
    /\ lastOp.op = "add" /\ lastOp.dropped # {} /\ lastOp.id \notin lastOp.dropped
    /\ Len(cache) = capacity /\ capacity = 2

C8_Step ==
    LET op == lastOp'
        full == Len(cache) = capacity
    IN  \* what each call returns and leaves behind for its own id
        /\ op.op = "add" => PeekPath(cache', op.id) = Some(op.path)
        /\ op.op = "remove" => PeekPath(cache', op.id) = None
        /\ op.op = "get_path" => op.ret = PeekPath(cache, op.id) /\ PeekPath(cache', op.id) = op.ret
        \* remove and get_path of an absent id leave the entries unchanged
        /\ (op.op \in {"remove", "get_path"} /\ ~Contains(cache, op.id))
              => {cache'[i] : i \in 1..Len(cache')} = {cache[i] : i \in 1..Len(cache)}
        \* a mapping changes only by remove(id), add(id, other path) or eviction
        /\ \A id \in CacheIds :
              PeekPath(cache', id) # PeekPath(cache, id) =>
                  \/ op.op = "remove" /\ op.id = id /\ PeekPath(cache', id) = None
                  \/ op.op = "add" /\ op.id = id /\ PeekPath(cache', id) = Some(op.path)
                  \/ /\ op.op = "add" /\ op.id # id /\ ~Contains(cache, op.id) /\ full
                     /\ PeekPath(cache', id) = None

\* C8: after add(id, path), get_path(id) returns exactly that path until id is
\* removed, re-added with another path or evicted; after remove(id) it returns None
\* until id is added again; remove and get_path of an absent id leave the entries
\* unchanged.
C8_CacheContract == [][C8_Step]_vars

\* a get_path that returns the path of a re-added id
C8_Witness ==
    /\ lastOp.op = "get_path" /\ lastOp.ret = Some("b.tif")
    /\ clock >= 3 /\ Len(cache) = 2 /\ cache[2].path = "a.tif"


-----------------------------------------------------------------------------------------------------------------------------------------------------
(* commands/raster.rs: the commands as concurrent requests.  Each command is   *)
(* an async fn run on its own task; the only state they share is the cache,    *)
(* and each DatasetCache method is one step (it holds the mutex throughout).   *)

MaxRequests == 2
MaxOpened == 2
AppCapacity == 1

Reqs == 1..MaxRequests
AppIds == 1..MaxOpened

\* commands that take one dataset id, and the two that take three
SingleCommands ==
    {"get_tile", "get_tile_stretched", "get_rgb_tile", "get_pixel_tile",
     "get_raster_stats", "get_histogram", "query_pixel_value",
     "query_pixel_value_at_pixel", "get_elevation_profile",
     "get_elevation_profile_pixels"}
CrossCommands == {"get_cross_layer_rgb_tile", "get_cross_layer_pixel_rgb_tile"}

Channel(k) == <<"Red", "Green", "Blue">>[k]
Lower(k) == <<"red", "green", "blue">>[k]

\* state.get_path(&id).ok_or("Dataset not found")? and its cross-layer forms
MissResultMutSourceError(cmd, k) == Err("Failed to open raster")
MissResult(cmd, k) ==
    IF cmd \in CrossCommands THEN Err(Channel(k) \o " dataset not found")
    ELSE Err("Dataset not found")

\* Dataset::open(&path).map_err(|e| format!("Failed to open raster: {}", e))?
OpenError(cmd, k) ==
    IF cmd \in CrossCommands THEN Err("Failed to open " \o Lower(k) \o " raster")
    ELSE Err("Failed to open raster")

\* failures of the work done on the open dataset, by their message prefix
WorkErrors == {"Failed to get band", "Failed to read"}

AllHeld == UNION {held[r] : r \in Reqs}

\* Dataset::open: a new handle, owned by the caller
NewHandleMutShared(inUse, path) == [n |-> 0, path |-> path]
NewHandle(inUse, path) ==
    [n |-> (CHOOSE n \in 1..(Cardinality(inUse) + 1) :
                /\ \A h \in inUse : h.n # n
                /\ \A m \in 1..(n - 1) : \E h \in inUse : h.n = m),
     path |-> path]

NoArg == [cmd |-> "", ids |-> <<>>, paths |-> <<>>, opens |-> 0]
NoRes == [ok |-> TRUE, val |-> "none"]

\* a command that takes ids is invoked
Start(r, cmd, ids) ==
    /\ pc[r] = "idle"
    /\ pc' = [pc EXCEPT ![r] = "lookup"]
    /\ arg' = [arg EXCEPT ![r] = [cmd |-> cmd, ids |-> ids, paths |-> <<>>, opens |-> 0]]
    /\ UNCHANGED <<cacheVars, held, res, issued, call>>

\* let path = state.get_path(&id).ok_or(..)?  -- one id at a time
Lookup(r) ==
    /\ pc[r] = "lookup"
    /\ LET k == Len(arg[r].paths) + 1
           id == arg[r].ids[k]
           got == PeekPath(cache, id)
       IN  /\ cache' = AfterGet(cache, id)
           /\ IF got = None
              THEN /\ pc' = [pc EXCEPT ![r] = "done"]
                   /\ res' = [res EXCEPT ![r] = MissResult(arg[r].cmd, k)]
                   /\ arg' = arg
              ELSE /\ arg' = [arg EXCEPT ![r].paths = Append(@, got[1])]
                   /\ pc' = [pc EXCEPT ![r] = IF k = Len(arg[r].ids) THEN "open" ELSE "lookup"]
                   /\ res' = res
    /\ UNCHANGED <<capacity, clock, lastUsed, lastOp, held, issued, call>>

\* let dataset = Dataset::open(&path).map_err(..)?  -- one path at a time;
\* an early return drops the handles opened so far
OpenDataset(r) ==
    /\ pc[r] = "open"
    /\ LET k == arg[r].opens + 1
       IN  \E opened \in BOOLEAN :
             IF opened
             THEN /\ held' = [held EXCEPT ![r] = @ \cup {NewHandle(AllHeld, arg[r].paths[k])}]
                  /\ arg' = [arg EXCEPT ![r].opens = k]
                  /\ pc' = [pc EXCEPT ![r] = IF k = Len(arg[r].ids) THEN "work" ELSE "open"]
                  /\ res' = res
             ELSE /\ held' = [held EXCEPT ![r] = {}]
                  /\ res' = [res EXCEPT ![r] = OpenError(arg[r].cmd, k)]
                  /\ pc' = [pc EXCEPT ![r] = "done"]
                  /\ arg' = arg
    /\ UNCHANGED <<cacheVars, issued, call>>

\* the rest of the command works on its own handles and returns; the
\* handles go out of scope
Work(r) ==
    /\ pc[r] = "work"
    /\ \E outcome \in {Ok("data")} \cup {Err(e) : e \in WorkErrors} :
          res' = [res EXCEPT ![r] = outcome]
    /\ held' = [held EXCEPT ![r] = {}]
    /\ pc' = [pc EXCEPT ![r] = "done"]
    /\ UNCHANGED <<cacheVars, arg, issued, call>>

\* open_raster, first line: Dataset::open(&path)
OpenRasterOpen(r, path) ==
    /\ pc[r] = "idle"
    /\ issued < MaxOpened
    /\ arg' = [arg EXCEPT ![r] = [cmd |-> "open_raster", ids |-> <<>>, paths |-> <<path>>, opens |-> 0]]
    /\ \E opened \in BOOLEAN :
          IF opened
          THEN /\ held' = [held EXCEPT ![r] = {NewHandle(AllHeld, path)}]
               /\ pc' = [pc EXCEPT ![r] = "register"]
               /\ res' = res
          ELSE /\ held' = held
               /\ pc' = [pc EXCEPT ![r] = "done"]
               /\ res' = [res EXCEPT ![r] = Err("Failed to open raster")]
    /\ UNCHANGED <<cacheVars, issued, call>>

\* open_raster, the rest: bounds (fallible), stats, a new uuid, state.add(id, path)
OpenRasterRegister(r) ==
    /\ pc[r] = "register"
    /\ \E bounds_ok \in BOOLEAN :
          IF bounds_ok
          THEN /\ issued' = issued + 1
               /\ cache' = AfterPut(cache, capacity, issued + 1, arg[r].paths[1])
               /\ res' = [res EXCEPT ![r] = Ok(issued + 1)]
          ELSE /\ issued' = issued
               /\ cache' = cache
               /\ res' = [res EXCEPT ![r] = Err("Failed to get geotransform")]
    /\ held' = [held EXCEPT ![r] = {}]
    /\ pc' = [pc EXCEPT ![r] = "done"]
    /\ UNCHANGED <<capacity, clock, lastUsed, lastOp, arg, call>>

\* close_dataset: state.remove(&id); Ok(())
CloseDataset(r, id) ==
    /\ pc[r] = "idle"
    /\ cache' = AfterPop(cache, id)
    /\ arg' = [arg EXCEPT ![r] = [cmd |-> "close_dataset", ids |-> <<id>>, paths |-> <<>>, opens |-> 0]]
    /\ res' = [res EXCEPT ![r] = Ok("unit")]
    /\ pc' = [pc EXCEPT ![r] = "done"]
    /\ UNCHANGED <<capacity, clock, lastUsed, lastOp, held, issued, call>>

\* the response is delivered; the task ends
Finish(r) ==
    /\ pc[r] = "done"
    /\ pc' = [pc EXCEPT ![r] = "idle"]
    /\ arg' = [arg EXCEPT ![r] = NoArg]
    /\ res' = [res EXCEPT ![r] = NoRes]
    /\ UNCHANGED <<cacheVars, held, issued, call>>

InitApp ==
    /\ EmptyCache(AppCapacity)
    /\ pc = [r \in Reqs |-> "idle"]
    /\ arg = [r \in Reqs |-> NoArg]
    /\ held = [r \in Reqs |-> {}]
    /\ res = [r \in Reqs |-> NoRes]
    /\ issued = 0
    /\ IdleCall

NextApp ==
    \/ \E r \in Reqs, cmd \in SingleCommands, id \in AppIds : Start(r, cmd, <<id>>)
    \/ \E r \in Reqs, cmd \in CrossCommands, ids \in [1..3 -> AppIds] : Start(r, cmd, ids)
    \/ \E r \in Reqs : Lookup(r)
    \/ \E r \in Reqs : OpenDataset(r)
    \/ \E r \in Reqs : Work(r)
    \/ \E r \in Reqs, path \in Paths : OpenRasterOpen(r, path)
    \/ \E r \in Reqs : OpenRasterRegister(r)
    \/ \E r \in Reqs, id \in AppIds : CloseDataset(r, id)
    \/ \E r \in Reqs : Finish(r)

SpecApp == InitApp /\ [][NextApp]_vars

IdCommands == SingleCommands \cup CrossCommands
NotFoundMessages ==
    {"Dataset not found", "Red dataset not found", "Green dataset not found",
     "Blue dataset not found"}
SourceMessages ==
    {OpenError(cmd, k).err : cmd \in IdCommands, k \in 1..3} \cup WorkErrors
        \cup {"Failed to open raster", "Failed to get geotransform"}

\* request r looks an id up in this step and the cache has no path for it
LookupMisses(r) ==
    /\ pc[r] = "lookup"
    /\ <<pc'[r], arg'[r]>> # <<pc[r], arg[r]>>
    /\ ~Contains(cache, arg[r].ids[Len(arg[r].paths) + 1])

C6_Step ==
    \A r \in Reqs :
        LookupMisses(r) =>
            /\ pc'[r] = "done"
            /\ ~res'[r].ok /\ res'[r].err \in NotFoundMessages
            /\ arg[r].opens = 0 /\ arg'[r].opens = 0
            /\ held[r] = {} /\ held'[r] = {}

\* C6: an id-taking command whose id (or, for the cross-layer commands, any of
\* whose three ids) has no cached path when it is looked up returns a
\* not-found error, having opened no dataset; the not-found messages are none
\* of the messages a failing open or read produces, and a request that ended
\* with a not-found message never held a handle.
C6_NotFoundWithoutOpening ==
    /\ [](NotFoundMessages \cap SourceMessages = {})
    /\ [](\A r \in Reqs :
            (pc[r] = "done" /\ ~res[r].ok /\ res[r].err \in NotFoundMessages)
                => (arg[r].cmd \in IdCommands /\ arg[r].opens = 0 /\ held[r] = {}))
    /\ [][C6_Step]_vars

\* an id that was issued and is no longer cached (closed or evicted) is asked
\* for and refused, and a cross-layer request is refused on its green id
C6_Witness ==
    /\ pc[1] = "done" /\ arg[1].cmd = "get_histogram"
    /\ arg[1].ids[1] <= issued /\ res[1] = Err("Dataset not found")
    /\ pc[2] = "done" /\ arg[2].cmd = "get_cross_layer_rgb_tile"
    /\ Len(arg[2].paths) = 1 /\ res[2] = Err("Green dataset not found")

\* C9: whatever the interleaving, the handles of two requests are disjoint,
\* every handle a request holds was opened from a path that request looked up
\* (or, for open_raster, was given), a request that has returned or not yet
\* started holds none, and the cache maps ids to path strings only.
C9_HandlesArePerOperation ==
    /\ \A r1, r2 \in Reqs : r1 # r2 => held[r1] \cap held[r2] = {}
    /\ \A r1, r2 \in Reqs : \A h1 \in held[r1], h2 \in held[r2] :
            h1.n = h2.n => (r1 = r2 /\ h1 = h2)
    /\ \A r \in Reqs :
            /\ \A h \in held[r] : \E k \in 1..Len(arg[r].paths) : arg[r].paths[k] = h.path
            /\ pc[r] \in {"idle", "lookup", "done"} => held[r] = {}
            /\ pc[r] = "work" => Cardinality(held[r]) = Len(arg[r].ids)
    /\ \A i \in 1..Len(cache) : cache[i].path \in Paths

\* two requests work on the same path at once, each through its own handle
C9_Witness ==
    /\ pc[1] = "work" /\ pc[2] = "work"
    /\ arg[1].paths = arg[2].paths
    /\ held[1] # {} /\ held[2] # {}

-----------------------------------------------------------------------------
(* apply_stretch on bounded inputs: the inputs are drawn, then the call is made *)

StretchInputs ==
    \E val \in Samples, stretch \in Stretches, nodata \in Nodatas :
        call = [fn |-> "apply_stretch", val |-> val, stretch |-> stretch,
                nodata |-> nodata, done |-> FALSE, out |-> None]

ApplyStretchCall ==
    /\ call.fn = "apply_stretch" /\ ~call.done
    /\ call' = [call EXCEPT !.done = TRUE,
                            !.out = apply_stretch(call.val, call.stretch, call.nodata)]
    /\ UNCHANGED <<cacheVars, appVars>>

InitStretch == EmptyCache(DefaultCapacity) /\ IdleApp /\ StretchInputs
NextStretch == ApplyStretchCall
SpecStretch == InitStretch /\ [][NextStretch]_vars

\* the call of apply_stretch has returned
Stretched == call.fn = "apply_stretch" /\ call.done

\* C3: apply_stretch returns None exactly when the value is 0.0, or a nodata is
\* present and the value is within 1e-10 of it (at most one unit of 2^-34 away), or
\* the value is NaN or infinite; for every other value it returns Some byte.
C3_NoneExactlyWhenInvalid ==
    Stretched =>
        LET v == call.val
            nd == call.nodata
            invalid == \/ v = 0
                       \/ v \in {NaN, PosInf, NegInf}
                       \/ /\ nd # None
                          /\ nd[1] \notin {NaN, PosInf, NegInf}
                          /\ v - nd[1] \in {-1, 0, 1}
        IN  /\ invalid <=> call.out = None
            /\ ~invalid => Len(call.out) = 1 /\ call.out[1] \in 0..255

\* a zero sample inside the stretch window, judged with a nodata that is not zero
C3_Witness ==
    /\ Stretched /\ call.val = 0 /\ call.nodata = Some(3)
    /\ call.stretch.min = -2 /\ call.stretch.max = 4 /\ call.out = None

\* C4 as stated: for every stretch and nodata = None, the value stretch.max, and
\* every value above it, gives Some(255).
C4_Original ==
    (Stretched /\ call.nodata = None /\ IsFinite(call.val) /\ call.val >= call.stretch.max)
        => call.out = Some(255)

\* C4 amended: for a stretch with max > min and nodata = None, every finite
\* non-zero value >= stretch.max gives exactly Some(255).
C4_MaxSaturates ==
    (/\ Stretched /\ call.nodata = None
     /\ call.stretch.max > call.stretch.min
     /\ IsFinite(call.val) /\ call.val # 0
     /\ call.val >= call.stretch.max)
        => call.out = Some(255)

C4_Witness ==
    /\ Stretched /\ call.nodata = None /\ call.stretch = [min |-> 2, max |-> 4, gamma |-> <<1, 2>>]
    /\ call.val = 4 /\ call.out = Some(255)

\* C5 as stated: for every stretch and every nodata, every value strictly below
\* stretch.min gives Some(0).
C5_Original ==
    (Stretched /\ IsFinite(call.val) /\ call.val < call.stretch.min) => call.out = Some(0)

\* C5 amended: every value strictly below stretch.min that is finite, not 0.0 and
\* not within 1e-10 of the nodata gives exactly Some(0), for every stretch.
C5_BelowMinIsZero ==
    (/\ Stretched /\ call.val < call.stretch.min
     /\ IsFinite(call.val) /\ call.val # 0
     /\ ~(call.nodata # None /\ IsFinite(call.nodata[1]) /\ Abs(call.val - call.nodata[1]) <= 1))
        => call.out = Some(0)

C5_Witness ==
    /\ Stretched /\ call.val = -3 /\ call.stretch.min = -2 /\ call.stretch.max = 4
    /\ call.nodata = Some(-1) /\ call.out = Some(0)

-----------------------------------------------------------------------------
(* gdal/tile_extractor.rs: tile rendering on opened datasets.                  *)
(* Coordinates are integers in units of 1e-4 degree; the datasets below have   *)
(* their corners on whole degrees, so no comparison falls within a unit.       *)

Deg == 10000
MaxZoom == 2
TileSize == 2

\* what is on disk: size, band count, geotransform <<x0, dx, y0, dy>> (None
\* when GDAL has none to give), projection kind, the four corners as PROJ maps
\* them to EPSG:4326 (projected CRS only), nodata of each band, and the
\* offset of its samples in SamplePattern
Datasets ==
    << [width |-> 10, height |-> 10, bands |-> 2,
        gt |-> Some(<<10 * Deg, Deg, 20 * Deg, -Deg>>), proj |-> "GEOGCS",
        lons |-> <<>>, lats |-> <<>>,
        nodata |-> <<Some(3), None>>, seed |-> 0],
       [width |-> 10, height |-> 10, bands |-> 2,
        gt |-> Some(<<500000, 1000, 4500000, -1000>>), proj |-> "PROJCS",
        lons |-> <<-100 * Deg, -90 * Deg, -100 * Deg - 1000, -90 * Deg + 1000>>,
        lats |-> <<40 * Deg, 40 * Deg + 1000, 50 * Deg, 50 * Deg - 1000>>,
        nodata |-> <<None, Some(3)>>, seed |-> 1],
       [width |-> 2000, height |-> 1000, bands |-> 2,
        gt |-> None, proj |-> "",
        lons |-> <<>>, lats |-> <<>>,
        nodata |-> <<Some(3), None>>, seed |-> 2] >>

DatasetIds == 1..Len(Datasets)
\* the band numbers the datasets have, and one they have not
BandArgs == 1..(Datasets[1].bands + 1)
Tiles == {t \in [z : 0..MaxZoom, x : 0..7, y : 0..7] :
            t.x < 2 ^ t.z /\ t.y < 2 ^ t.z}

\* the two stretches a channel is requested with: (0, 4, gamma 1) and (0, 6, gamma 2)
TileStretches ==
    {[min |-> 0, max |-> 4, gamma |-> <<1, 1>>],
     [min |-> 0, max |-> 6, gamma |-> <<2, 1>>]}

\* atan(sinh(q/4 * PI)) in degrees, for the quarters a zoom of at most 3 needs
GudermannQuarter(q) ==
    LET table == <<409799, 665133, 791713, 850511>>
    IN  IF q = 0 THEN 0 ELSE IF q > 0 THEN table[q] ELSE -table[-q]

tile_to_geo_bounds(x, y, z) ==
    LET n == 2 ^ z
        lon_min == (x * 360 * Deg) \div n - 180 * Deg
        lon_max == ((x + 1) * 360 * Deg) \div n - 180 * Deg
        lat_max == GudermannQuarter(4 - (8 * y) \div n)
        lat_min == GudermannQuarter(4 - (8 * (y + 1)) \div n)
    IN  <<lon_min, lat_min, lon_max, lat_max>>

SeqMin(q) == CHOOSE m \in {q[i] : i \in 1..Len(q)} : \A i \in 1..Len(q) : m <= q[i]
SeqMax(q) == CHOOSE m \in {q[i] : i \in 1..Len(q)} : \A i \in 1..Len(q) : m >= q[i]

\* crs_ok: whether building and applying the transformation to EPSG:4326 works
get_dataset_geo_bounds(ds, crs_ok) ==
    IF ds.gt = None THEN Err("Failed to get geotransform")
    ELSE LET gt == ds.gt[1]
             native_min_x == gt[1]
             native_max_x == gt[1] + ds.width * gt[2]
             native_max_y == gt[3]
             native_min_y == gt[3] + ds.height * gt[4]
             native == <<native_min_x, native_min_y, native_max_x, native_max_y>>
         IN  IF ds.proj = "" THEN Ok(native)
             ELSE IF ds.proj = "GEOGCS" THEN Ok(native)
             ELSE IF ~crs_ok THEN Err("Failed to transform")
             ELSE Ok(<<SeqMin(ds.lons), SeqMin(ds.lats), SeqMax(ds.lons), SeqMax(ds.lats)>>)

\* the f64 comparisons < and > : false as soon as an operand is NaN
Less(a, b) == a # NaN /\ b # NaN /\ a < b
Greater(a, b) == a # NaN /\ b # NaN /\ a > b

BoundsIntersectMutStrict(a, b) ==
    ~(a[3] <= b[1] \/ a[1] >= b[3] \/ a[4] <= b[2] \/ a[2] >= b[4])
bounds_intersect(a, b) ==
    ~(Less(a[3], b[1]) \/ Greater(a[1], b[3]) \/ Less(a[4], b[2]) \/ Greater(a[2], b[4]))

\* the samples GDAL returns for a band: the pattern, rotated by dataset and band
SamplePattern == <<0, 5, 3, NaN>>
BandSample(ds, band, i) ==
    SamplePattern[((ds.seed + band + i) % Len(SamplePattern)) + 1]

\* whether the warp finds source pixels under the tile
WarpCovers(ds, request) ==
    LET extent == get_dataset_geo_bounds(ds, TRUE)
    IN  extent.ok /\ bounds_intersect(tile_to_geo_bounds(request.x, request.y, request.z), extent.val)

\* extract_raw_tile: a zero-filled MEM dataset with the source's band count,
\* reproject into it, read the requested band back.  warp_ok is the outcome
\* of reproject; output pixels the warp does not write stay 0.0
extract_raw_tile(ds, request, warp_ok) ==
    IF ~warp_ok \/ ds.gt = None THEN Err("Failed to reproject")
    ELSE IF request.band \notin 1..ds.bands THEN Err("Failed to get output band")
    ELSE Ok([i \in 1..(request.tile_size * request.tile_size) |->
                IF WarpCovers(ds, request) THEN BandSample(ds, request.band, i - 1) ELSE 0])

\* encode_png: ImageBuffer::from_raw accepts exactly size*size*4 bytes; the
\* PNG written is a function of the size and the bytes, and decodes to them
encode_png(rgba_data, size) ==
    IF Len(rgba_data) # size * size * 4 THEN Err("Failed to create image buffer")
    ELSE Ok([png |-> size, rgba |-> rgba_data])

create_empty_tile(size) == encode_png([j \in 1..(size * size * 4) |-> 0], size)

\* tile_data[i * 4 + c] of the loops, from one <<r, g, b, a>> per sample
Flatten(pixels) ==
    [j \in 1..(4 * Len(pixels)) |-> pixels[((j - 1) \div 4) + 1][((j - 1) % 4) + 1]]

\* body of the single-band loop
GrayPixelMutRedOnly(val, stretch, nodata) ==
    LET stretched == apply_stretch(val, stretch, nodata)
    IN  IF IsSome(stretched) THEN <<stretched[1], 0, 0, 255>> ELSE <<0, 0, 0, 0>>
GrayPixel(val, stretch, nodata) ==
    LET stretched == apply_stretch(val, stretch, nodata)
    IN  IF IsSome(stretched)
        THEN <<stretched[1], stretched[1], stretched[1], 255>>
        ELSE <<0, 0, 0, 0>>

\* body of the three-channel loops
RgbPixelMutAllValid(r, g, b) ==
    IF IsSome(r) /\ IsSome(g) /\ IsSome(b)
    THEN <<UnwrapOr(r, 0), UnwrapOr(g, 0), UnwrapOr(b, 0), 255>>
    ELSE <<0, 0, 0, 0>>
RgbPixel(r, g, b) ==
    IF IsSome(r) \/ IsSome(g) \/ IsSome(b)
    THEN <<UnwrapOr(r, 0), UnwrapOr(g, 0), UnwrapOr(b, 0), 255>>
    ELSE <<0, 0, 0, 0>>

GrayTile(data, stretch, nodata) ==
    Flatten([i \in 1..Len(data) |-> GrayPixel(data[i], stretch, nodata)])

RgbTile(r_data, g_data, b_data, stretches, nodatas) ==
    Flatten([i \in 1..Len(r_data) |->
                RgbPixel(apply_stretch(r_data[i], stretches[1], nodatas[1]),
                         apply_stretch(g_data[i], stretches[2], nodatas[2]),
                         apply_stretch(b_data[i], stretches[3], nodatas[3]))])

\* dataset.rasterband(band).ok().and_then(|b| b.no_data_value())
BandNodata(ds, band) == IF band \in 1..ds.bands THEN ds.nodata[band] ELSE None

TileRequest(t, band) == [x |-> t.x, y |-> t.y, z |-> t.z, band |-> band, tile_size |-> TileSize]
WithBand(request, band) == [request EXCEPT !.band = band]

\* fail = k: the k-th read of raster data (reproject, or read_as) is the first
\* to fail; 0: none fails
extract_tile_with_stretch(ds, request, stretch, crs_ok, fail) ==
    LET tile_geo_bounds == tile_to_geo_bounds(request.x, request.y, request.z)
        ds_geo_bounds == get_dataset_geo_bounds(ds, crs_ok)
    IN  IF ~ds_geo_bounds.ok THEN ds_geo_bounds
        ELSE IF ~bounds_intersect(tile_geo_bounds, ds_geo_bounds.val)
             THEN create_empty_tile(request.tile_size)
        ELSE IF request.band \notin 1..ds.bands THEN Err("Failed to get band")
        ELSE LET data == extract_raw_tile(ds, request, fail # 1)
             IN  IF ~data.ok THEN data
                 ELSE encode_png(GrayTile(data.val, stretch, ds.nodata[request.band]),
                                 request.tile_size)

\* band.compute_raster_min_max(true): the extremes of the band's samples
FallbackMax == 9000
BandMinMax(ds, band) ==
    LET vals == {v \in {BandSample(ds, band, i) : i \in 1..Len(SamplePattern)} :
                    IsFinite(v) /\ ~NodataMatch(v, ds.nodata[band])}
    IN  [min |-> CHOOSE m \in vals : \A v \in vals : m <= v,
         max |-> CHOOSE m \in vals : \A v \in vals : m >= v]

extract_tile(ds, request, minmax_ok, crs_ok, fail) ==
    IF request.band \notin 1..ds.bands THEN Err("Failed to get band")
    ELSE LET stats == BandMinMax(ds, request.band)
             stretch == IF minmax_ok
                        THEN [min |-> stats.min, max |-> stats.max, gamma |-> <<1, 1>>]
                        ELSE [min |-> 0, max |-> FallbackMax, gamma |-> <<1, 1>>]
         IN  extract_tile_with_stretch(ds, request, stretch, crs_ok, fail)

extract_rgb_tile(ds, request, bands, stretches, crs_ok, fail) ==
    LET tile_geo_bounds == tile_to_geo_bounds(request.x, request.y, request.z)
        ds_geo_bounds == get_dataset_geo_bounds(ds, crs_ok)
        r_data == extract_raw_tile(ds, WithBand(request, bands[1]), fail # 1)
        g_data == extract_raw_tile(ds, WithBand(request, bands[2]), fail # 2)
        b_data == extract_raw_tile(ds, WithBand(request, bands[3]), fail # 3)
    IN  IF ~ds_geo_bounds.ok THEN ds_geo_bounds
        ELSE IF ~bounds_intersect(tile_geo_bounds, ds_geo_bounds.val)
             THEN create_empty_tile(request.tile_size)
        ELSE IF ~r_data.ok THEN r_data
        ELSE IF ~g_data.ok THEN g_data
        ELSE IF ~b_data.ok THEN b_data
        ELSE encode_png(RgbTile(r_data.val, g_data.val, b_data.val, stretches,
                                [k \in 1..3 |-> BandNodata(ds, bands[k])]),
                        request.tile_size)

\* no intersection test here: the three reprojections always run
extract_cross_layer_rgb_tile(dss, bands, request, stretches, fail) ==
    LET r_data == extract_raw_tile(dss[1], WithBand(request, bands[1]), fail # 1)
        g_data == extract_raw_tile(dss[2], WithBand(request, bands[2]), fail # 2)
        b_data == extract_raw_tile(dss[3], WithBand(request, bands[3]), fail # 3)
    IN  IF ~r_data.ok THEN r_data
        ELSE IF ~g_data.ok THEN g_data
        ELSE IF ~b_data.ok THEN b_data
        ELSE encode_png(RgbTile(r_data.val, g_data.val, b_data.val, stretches,
                                [k \in 1..3 |-> BandNodata(dss[k], bands[k])]),
                        request.tile_size)

\* the synthetic frame of non-georeferenced images: 0.01 degree per pixel,
\* centred on (0, 0), half-height clamped to 85 degrees
Scale == Deg \div 100
ClampLat == 85 * Deg
Floor(num, den) == num \div den
Ceil(num, den) == -((-num) \div den)

\* the synthetic frame of an image
PixelFrame(ds) ==
    LET half_width == (ds.width * Scale) \div 2
        half_height == (ds.height * Scale) \div 2
        clamped_half_height == Min2(half_height, ClampLat)
    IN  [half_width |-> half_width, half_height |-> half_height,
         clamped_half_height |-> clamped_half_height,
         img_geo_bounds |-> <<-half_width, -clamped_half_height, half_width, clamped_half_height>>,
         pixel_scale_y |-> IF half_height > ClampLat
                           THEN (clamped_half_height * 2) \div ds.height
                           ELSE Scale]

\* src_x_f.max(0.0).floor() and src_x_end_f.min(img_width as f64).ceil(), for num / den
ClampedStart(num, den) == Floor(Max2(num, 0), den)
ClampedEndMutUnclamped(num, den, size) == Ceil(num, den)
ClampedEnd(num, den, size) == Min2(Ceil(num, den), size)

\* the tile in source pixels, clamped to the image: <<src_x, src_y, src_x_end, src_y_end>>
SourceRect(ds, request) ==
    LET f == PixelFrame(ds)
        tile_geo_bounds == tile_to_geo_bounds(request.x, request.y, request.z)
    IN  <<ClampedStart(tile_geo_bounds[1] + f.half_width, Scale),
          ClampedStart(f.clamped_half_height - tile_geo_bounds[4], f.pixel_scale_y),
          ClampedEnd(tile_geo_bounds[3] + f.half_width, Scale, ds.width),
          ClampedEnd(f.clamped_half_height - tile_geo_bounds[2], f.pixel_scale_y, ds.height)>>

\* the part extract_pixel_tile and extract_raw_pixel_tile share: None when the
\* tile misses the image, else the source window <<src_x, src_y, src_width, src_height>>
PixelWindow(ds, request) ==
    LET img_width == ds.width
        img_height == ds.height
        tile_geo_bounds == tile_to_geo_bounds(request.x, request.y, request.z)
        rect == SourceRect(ds, request)
        src_x == rect[1]
        src_y == rect[2]
        src_width == Max2(rect[3] - src_x, 1)
        src_height == Max2(rect[4] - src_y, 1)
    IN  IF ~bounds_intersect(tile_geo_bounds, PixelFrame(ds).img_geo_bounds) THEN None
        ELSE IF src_width = 0 \/ src_height = 0 \/ src_x >= img_width \/ src_y >= img_height
             THEN None
        ELSE Some(<<src_x, src_y, src_width, src_height>>)

\* band.read_as(window, size, (tile_size, tile_size)): GDAL refuses a window
\* that leaves the raster
ReadWindow(ds, band, window, tile_size, read_ok) ==
    IF ~read_ok
          \/ window[1] + window[3] > ds.width
          \/ window[2] + window[4] > ds.height
    THEN Err("Failed to read")
    ELSE Ok([i \in 1..(tile_size * tile_size) |-> BandSample(ds, band, i - 1)])

extract_raw_pixel_tile(ds, request, read_ok) ==
    LET window == PixelWindow(ds, request)
    IN  IF window = None
        THEN Ok([i \in 1..(request.tile_size * request.tile_size) |-> 0])
        ELSE IF request.band \notin 1..ds.bands THEN Err("Failed to get band")
        ELSE ReadWindow(ds, request.band, window[1], request.tile_size, read_ok)

extract_pixel_tile(ds, request, stretch, fail) ==
    LET window == PixelWindow(ds, request)
    IN  IF window = None THEN create_empty_tile(request.tile_size)
        ELSE IF request.band \notin 1..ds.bands THEN Err("Failed to get band")
        ELSE LET data == ReadWindow(ds, request.band, window[1], request.tile_size, fail # 1)
             IN  IF ~data.ok THEN data
                 ELSE encode_png(GrayTile(data.val, stretch, ds.nodata[request.band]),
                                 request.tile_size)

extract_cross_layer_pixel_rgb_tile(dss, bands, request, stretches, fail) ==
    LET r_data == extract_raw_pixel_tile(dss[1], WithBand(request, bands[1]), fail # 1)
        g_data == extract_raw_pixel_tile(dss[2], WithBand(request, bands[2]), fail # 2)
        b_data == extract_raw_pixel_tile(dss[3], WithBand(request, bands[3]), fail # 3)
    IN  IF ~r_data.ok THEN r_data
        ELSE IF ~g_data.ok THEN g_data
        ELSE IF ~b_data.ok THEN b_data
        ELSE encode_png(RgbTile(r_data.val, g_data.val, b_data.val, stretches,
                                [k \in 1..3 |-> BandNodata(dss[k], bands[k])]),
                        request.tile_size)

\* the tile calls: who is called, on which datasets, with what
TileFns1 == {"extract_tile", "extract_tile_with_stretch", "extract_pixel_tile"}
TileFns3 == {"extract_rgb_tile", "extract_cross_layer_rgb_tile",
             "extract_cross_layer_pixel_rgb_tile"}

TileCall(fn, ds, tile, bands, stretches) ==
    [fn |-> fn, ds |-> ds, tile |-> tile, bands |-> bands, stretch |-> stretches,
     faults |-> {}, done |-> FALSE, out |-> NoRes]

TileInputs ==
    \/ \E fn \in {"extract_tile_with_stretch", "extract_pixel_tile"}, d \in DatasetIds,
          t \in Tiles, band \in BandArgs, s \in TileStretches :
          call = TileCall(fn, <<d>>, t, <<band>>, <<s>>)
    \/ \E d \in DatasetIds, t \in Tiles, band \in BandArgs :
          call = TileCall("extract_tile", <<d>>, t, <<band>>, <<>>)
    \/ \E d \in DatasetIds, t \in Tiles, bands \in [1..3 -> BandArgs],
          ss \in [1..3 -> TileStretches] :
          call = TileCall("extract_rgb_tile", <<d>>, t, bands, ss)
    \/ \E fn \in {"extract_cross_layer_rgb_tile", "extract_cross_layer_pixel_rgb_tile"},
          dss \in [1..3 -> DatasetIds], t \in Tiles, bands \in [1..3 -> BandArgs],
          ss \in [1..3 -> TileStretches] :
          call = TileCall(fn, dss, t, bands, ss)

Returns(result) == call' = [call EXCEPT !.done = TRUE, !.out = result]

ExtractTile ==
    /\ call.fn = "extract_tile" /\ ~call.done
    /\ \E minmax_ok, crs_ok \in BOOLEAN, fail \in 0..1 :
          call' = [call EXCEPT
                     !.done = TRUE,
                     !.out = extract_tile(Datasets[call.ds[1]],
                                          TileRequest(call.tile, call.bands[1]),
                                          minmax_ok, crs_ok, fail),
                     \* history: the steps that were run and failed
                     !.faults = IF minmax_ok \/ call.bands[1] \notin 1..Datasets[call.ds[1]].bands
                                THEN {} ELSE {"compute_raster_min_max"}]
    /\ UNCHANGED <<cacheVars, appVars>>

ExtractTileWithStretch ==
    /\ call.fn = "extract_tile_with_stretch" /\ ~call.done
    /\ \E crs_ok \in BOOLEAN, fail \in 0..1 :
          Returns(extract_tile_with_stretch(Datasets[call.ds[1]],
                                            TileRequest(call.tile, call.bands[1]),
                                            call.stretch[1], crs_ok, fail))
    /\ UNCHANGED <<cacheVars, appVars>>

\* get_rgb_tile builds its request with band 1 ("not used directly")
ExtractRgbTile ==
    /\ call.fn = "extract_rgb_tile" /\ ~call.done
    /\ \E crs_ok \in BOOLEAN, fail \in 0..3 :
          Returns(extract_rgb_tile(Datasets[call.ds[1]], TileRequest(call.tile, 1),
                                   call.bands, call.stretch, crs_ok, fail))
    /\ UNCHANGED <<cacheVars, appVars>>

ExtractPixelTile ==
    /\ call.fn = "extract_pixel_tile" /\ ~call.done
    /\ \E fail \in 0..1 :
          Returns(extract_pixel_tile(Datasets[call.ds[1]], TileRequest(call.tile, call.bands[1]),
                                     call.stretch[1], fail))
    /\ UNCHANGED <<cacheVars, appVars>>

ExtractCrossLayerRgbTile ==
    /\ call.fn = "extract_cross_layer_rgb_tile" /\ ~call.done
    /\ \E fail \in 0..3 :
          Returns(extract_cross_layer_rgb_tile([k \in 1..3 |-> Datasets[call.ds[k]]],
                                               call.bands, TileRequest(call.tile, 1),
                                               call.stretch, fail))
    /\ UNCHANGED <<cacheVars, appVars>>

ExtractCrossLayerPixelRgbTile ==
    /\ call.fn = "extract_cross_layer_pixel_rgb_tile" /\ ~call.done
    /\ \E fail \in 0..3 :
          Returns(extract_cross_layer_pixel_rgb_tile([k \in 1..3 |-> Datasets[call.ds[k]]],
                                                     call.bands, TileRequest(call.tile, 1),
                                                     call.stretch, fail))
    /\ UNCHANGED <<cacheVars, appVars>>

InitTile == EmptyCache(DefaultCapacity) /\ IdleApp /\ TileInputs
NextTile ==
    \/ ExtractTile
    \/ ExtractTileWithStretch
    \/ ExtractRgbTile
    \/ ExtractPixelTile
    \/ ExtractCrossLayerRgbTile
    \/ ExtractCrossLayerPixelRgbTile
SpecTile == InitTile /\ [][NextTile]_vars

\* a tile call has returned
Rendered == call.fn \in TileFns1 \cup TileFns3 /\ call.done

\* the dataset behind channel k of the call (one dataset serves all channels
\* of the same-dataset functions)
CallDataset(k) == Datasets[call.ds[IF Len(call.ds) = 1 THEN 1 ELSE k]]
CallChannels == 1..Len(call.bands)
CallTileBounds == tile_to_geo_bounds(call.tile.x, call.tile.y, call.tile.z)

\* two boxes <<min_x, min_y, max_x, max_y>> have no point in common
Disjoint(a, b) == a[3] < b[1] \/ b[3] < a[1] \/ a[4] < b[2] \/ b[4] < a[2]

\* the extent the call tests the tile against: the EPSG:4326 extent of a
\* georeferenced dataset, the synthetic frame of an image
HasExtent(ds) ==
    IF call.fn \in {"extract_pixel_tile", "extract_cross_layer_pixel_rgb_tile"}
    THEN TRUE
    ELSE ds.gt # None
ExtentOf(ds) ==
    IF call.fn \in {"extract_pixel_tile", "extract_cross_layer_pixel_rgb_tile"}
    THEN <<-((ds.width * Scale) \div 2), -Min2((ds.height * Scale) \div 2, 85 * Deg),
           (ds.width * Scale) \div 2, Min2((ds.height * Scale) \div 2, 85 * Deg)>>
    ELSE get_dataset_geo_bounds(ds, TRUE).val

\* the call is one the claim C1 speaks of: valid bands, every dataset has an
\* extent and the code could compute it, and the tile misses every extent
MissesEveryExtent ==
    /\ Rendered
    /\ \A k \in CallChannels :
          /\ call.bands[k] \in 1..CallDataset(k).bands
          /\ HasExtent(CallDataset(k))
          /\ Disjoint(CallTileBounds, ExtentOf(CallDataset(k)))
    /\ ~(~call.out.ok /\ call.out.err \in {"Failed to transform", "Failed to get geotransform"})

IsTransparentTile(result) ==
    /\ result.ok
    /\ result.val.png = TileSize
    /\ Len(result.val.rgba) = TileSize * TileSize * 4
    /\ \A j \in 1..Len(result.val.rgba) : result.val.rgba[j] = 0

\* C1 (as claimed): every tile-rendering function, called on opened datasets
\* with valid band numbers for a tile that does not intersect the extent of
\* its dataset(s), returns Ok with the all-transparent tile and never an error.
C1_Original == MissesEveryExtent => IsTransparentTile(call.out)

\* C1 (what the code guarantees): the same, for the functions that test the
\* intersection before they read: all but extract_cross_layer_rgb_tile.
C1_GuardedPathsTransparent ==
    (MissesEveryExtent /\ call.fn # "extract_cross_layer_rgb_tile")
        => IsTransparentTile(call.out)

\* the cross-layer function asked for a tile that misses its three datasets
\* returns the reprojection's error
C1_Witness ==
    /\ MissesEveryExtent
    /\ call.fn = "extract_cross_layer_rgb_tile"
    /\ call.out = Err("Failed to reproject")

\* the samples channel k of a three-channel call reads, when every read works
ChannelData(k) ==
    IF call.fn = "extract_cross_layer_pixel_rgb_tile"
    THEN extract_raw_pixel_tile(CallDataset(k), TileRequest(call.tile, call.bands[k]), TRUE).val
    ELSE extract_raw_tile(CallDataset(k), TileRequest(call.tile, call.bands[k]), TRUE).val

ChannelNodata(k) ==
    IF call.bands[k] \in 1..CallDataset(k).bands
    THEN CallDataset(k).nodata[call.bands[k]]
    ELSE None

\* channel k has a value at pixel i: decided by its own sample and nodata
ChannelValid(k, i) ==
    LET v == ChannelData(k)[i]
        nd == ChannelNodata(k)
    IN  /\ v # 0
        /\ v \notin {NaN, PosInf, NegInf}
        /\ ~(nd # None /\ nd[1] \notin {NaN, PosInf, NegInf}
                /\ (v - nd[1]) \in -1..1)

ChannelByte(k, i) == apply_stretch(ChannelData(k)[i], call.stretch[k], ChannelNodata(k))[1]

\* a three-channel call has composited its three reads into an image
Composited ==
    /\ call.fn \in TileFns3 /\ call.done /\ call.out.ok
    /\ \A k \in 1..3 : call.bands[k] \in 1..CallDataset(k).bands

OutPixel(i) == SubSeq(call.out.val.rgba, 4 * (i - 1) + 1, 4 * i)

\* C2: in the three three-channel functions, at every pixel: if some channel
\* has a value the pixel is opaque and each component is its own channel's
\* byte, 0 for a channel without a value; if none has, the pixel is
\* (0, 0, 0, 0).  Whether a channel has a value is decided by that channel's
\* sample and nodata alone.
C2_AnyChannelMakesOpaque ==
    Composited =>
        \A i \in 1..(TileSize * TileSize) :
            IF \E k \in 1..3 : ChannelValid(k, i)
            THEN OutPixel(i) = <<IF ChannelValid(1, i) THEN ChannelByte(1, i) ELSE 0,
                                 IF ChannelValid(2, i) THEN ChannelByte(2, i) ELSE 0,
                                 IF ChannelValid(3, i) THEN ChannelByte(3, i) ELSE 0,
                                 255>>
            ELSE OutPixel(i) = <<0, 0, 0, 0>>

\* a cross-dataset composite has a pixel where only green has a value, and
\* one where red and blue have different bytes
C2_Witness ==
    /\ Composited
    /\ call.fn # "extract_rgb_tile"
    /\ \E i \in 1..(TileSize * TileSize) :
          /\ ~ChannelValid(1, i) /\ ChannelValid(2, i) /\ ~ChannelValid(3, i)
          /\ OutPixel(i)[2] > 0
          /\ OutPixel(i) = <<0, OutPixel(i)[2], 0, 255>>
    /\ \E i \in 1..(TileSize * TileSize) :
          /\ ChannelValid(1, i) /\ ChannelValid(3, i)
          /\ OutPixel(i)[1] # OutPixel(i)[3]

-----------------------------------------------------------------------------
(* commands/raster.rs: the two elevation profiles, from the opened dataset on. *)
(* The raster is one column of StripLen pixels and every waypoint lies on it:  *)
(* <<0, y>> in pixels, or longitude 0 and latitude y on a grid of one degree   *)
(* per pixel whose top edge is at latitude StripLen.  Distances along the      *)
(* column are whole numbers (of pixels, or of R*PI/180 metres), and a distance *)
(* along the line is kept as a numerator over samples - 1.                     *)

MaxSamples == 4
MaxWaypoints == 3
StripLen == 3
NoDataElev == -99

Elevs == {10, 20, NoDataElev}
WaypointCoords == -1..StripLen
Polylines == UNION {[1..n -> WaypointCoords] : n \in 0..MaxWaypoints}
SampleCounts == 1..MaxSamples
Strips == [1..StripLen -> Elevs]

\* sqrt(dx*dx + dy*dy)
pixel_distance(x1, y1, x2, y2) ==
    ISqrt((x2 - x1) * (x2 - x1) + (y2 - y1) * (y2 - y1))

\* on one meridian a = sin^2(delta_lat / 2), so r * c = r * |delta_lat|:
\* the difference of latitudes, in units of R*PI/180 metres
haversine_distance(lng1, lat1, lng2, lat2) == Abs(lat2 - lat1)

SegmentLengths(fn, coords) ==
    [i \in 1..(Len(coords) - 1) |->
        IF fn = "get_elevation_profile_pixels"
        THEN pixel_distance(0, coords[i], 0, coords[i + 1])
        ELSE haversine_distance(0, coords[i], 0, coords[i + 1])]

RECURSIVE SumSeq(_)
SumSeq(q) == IF q = <<>> THEN 0 ELSE q[1] + SumSeq(Tail(q))

\* the while loop: skip the segments that end before the target distance
\* (target = t / s1)
RECURSIVE SeekSegment(_, _, _, _, _)
SeekSegment(segment_idx, segment_start_distance, segment_lengths, t, s1) ==
    IF /\ segment_idx < Len(segment_lengths)
       /\ (segment_start_distance + segment_lengths[segment_idx + 1]) * s1 < t
    THEN SeekSegment(segment_idx + 1,
                     segment_start_distance + segment_lengths[segment_idx + 1],
                     segment_lengths, t, s1)
    ELSE <<segment_idx, segment_start_distance>>

\* x.round(): half away from zero;  x.floor()
Round(num, den) ==
    IF num >= 0 THEN (2 * num + den) \div (2 * den)
    ELSE -((2 * (-num) + den) \div (2 * den))

\* the position of the sample on the column, <<num, den>>; <<NaN, 1>> when
\* the segment has length 0.0 (progress = 0.0 / 0.0) or the target is NaN
SamplePosition(coords, segment_lengths, segment_idx, segment_start_distance, t, s1) ==
    IF segment_idx >= Len(segment_lengths) THEN <<coords[Len(coords)], 1>>
    ELSE LET len == segment_lengths[segment_idx + 1]
             from == coords[segment_idx + 1]
             to == coords[segment_idx + 2]
         IN  IF len = 0 \/ s1 = 0 THEN <<NaN, 1>>
             ELSE <<from * s1 * len + (to - from) * (t - segment_start_distance * s1),
                    s1 * len>>

\* the row the sample reads: round() of the pixel profile, floor((lat - gt[3]) / gt[5])
\* of the geographic one with gt[3] = StripLen and gt[5] = -1; NaN casts to 0
SampleRow(fn, pos) ==
    IF pos[1] = NaN THEN 0
    ELSE IF fn = "get_elevation_profile_pixels" THEN Round(pos[1], pos[2])
    ELSE Floor(StripLen * pos[2] - pos[1], pos[2])

ProfileStart ==
    [segment_idx |-> 0, segment_start_distance |-> 0,
     min_elev |-> PosInf, max_elev |-> NegInf,
     elevation_gain |-> 0, elevation_loss |-> 0,
     prev_elevation |-> None, points |-> <<>>, failed |-> FALSE]

\* i as f64 * step with step = total_distance / (samples - 1) as f64: for one
\* sample the step is +inf and the target 0.0 * inf = NaN
TargetDistance(i, total, s1) == IF s1 = 0 THEN <<NaN, 1>> ELSE <<i * total, s1>>

\* one round of the loop over the samples
ProfileStep(p, i, st) ==
    LET t == i * p.total
        s1 == p.samples - 1
        seek == SeekSegment(st.segment_idx, st.segment_start_distance, p.lengths, t, s1)
        pos == SamplePosition(p.coords, p.lengths, seek[1], seek[2], t, s1)
        pixel_y == SampleRow(p.fn, pos)
        inside == pixel_y >= 0 /\ pixel_y < Len(p.strip)
        value == IF inside THEN p.strip[pixel_y + 1] ELSE 0
        is_valid == inside /\ ~NodataMatch(value, p.nodata)
        elevation == IF is_valid THEN value ELSE 0
        diff == IF IsSome(st.prev_elevation) THEN elevation - st.prev_elevation[1] ELSE 0
        \* at, row and seg are not fields of ProfilePoint: the position before it is cast,
        \* the row read and the segment the sample was interpolated on
        point == [distance |-> TargetDistance(i, p.total, s1), elevation |-> elevation, at |-> pos,
                  row |-> pixel_y, seg |-> seek[1], is_valid |-> is_valid]
    IN  IF inside /\ ~p.read_ok THEN [st EXCEPT !.failed = TRUE]
        ELSE [segment_idx |-> seek[1], segment_start_distance |-> seek[2],
              min_elev |-> IF is_valid /\ (st.min_elev = PosInf \/ elevation < st.min_elev)
                           THEN elevation ELSE st.min_elev,
              max_elev |-> IF is_valid /\ (st.max_elev = NegInf \/ elevation > st.max_elev)
                           THEN elevation ELSE st.max_elev,
              elevation_gain |-> IF is_valid /\ diff > 0
                                 THEN st.elevation_gain + diff ELSE st.elevation_gain,
              elevation_loss |-> IF is_valid /\ IsSome(st.prev_elevation) /\ diff <= 0
                                 THEN st.elevation_loss + Abs(diff) ELSE st.elevation_loss,
              prev_elevation |-> IF is_valid THEN Some(elevation) ELSE st.prev_elevation,
              points |-> Append(st.points, point),
              failed |-> FALSE]

RECURSIVE ProfileLoop(_, _, _)
ProfileLoop(p, i, st) ==
    IF i = p.samples \/ st.failed THEN st
    ELSE ProfileLoop(p, i + 1, ProfileStep(p, i, st))

\* if total_distance == 0.0
LineHasZeroLengthMutEmptyOnly(segment_lengths, total_distance) == segment_lengths = <<>>
LineHasZeroLength(segment_lengths, total_distance) == total_distance = 0

\* both commands, after the dataset is open: lengths, the zero-length test,
\* the loop, the result
ProfileBody(fn, strip, nodata, coords, samples, read_ok) ==
    LET segment_lengths == SegmentLengths(fn, coords)
        total_distance == SumSeq(segment_lengths)
        p == [fn |-> fn, strip |-> strip, nodata |-> nodata, coords |-> coords,
              samples |-> samples, lengths |-> segment_lengths,
              total |-> total_distance, read_ok |-> read_ok]
        end == ProfileLoop(p, 0, ProfileStart)
    IN  IF LineHasZeroLength(segment_lengths, total_distance)
        THEN Err("Line has zero length")
        ELSE IF end.failed THEN Err("Failed to read")
        ELSE Ok([points |-> end.points,
                 min_elevation |-> IF IsFinite(end.min_elev) THEN end.min_elev ELSE 0,
                 max_elevation |-> IF IsFinite(end.max_elev) THEN end.max_elev ELSE 0,
                 total_distance |-> total_distance,
                 elevation_gain |-> end.elevation_gain,
                 elevation_loss |-> end.elevation_loss])

get_elevation_profile(strip, nodata, coords, samples, read_ok) ==
    ProfileBody("get_elevation_profile", strip, nodata, coords, samples, read_ok)

get_elevation_profile_pixels(strip, nodata, pixel_coords, samples, read_ok) ==
    ProfileBody("get_elevation_profile_pixels", strip, nodata, pixel_coords, samples, read_ok)

ProfileFns == {"get_elevation_profile", "get_elevation_profile_pixels"}

ProfileInputs ==
    \E fn \in ProfileFns, strip \in Strips, nodata \in {None, Some(NoDataElev)},
       coords \in Polylines, samples \in SampleCounts :
        call = [fn |-> fn, strip |-> strip, nodata |-> nodata, coords |-> coords,
                samples |-> samples, done |-> FALSE, out |-> NoRes]

GetElevationProfile ==
    /\ call.fn = "get_elevation_profile" /\ ~call.done
    /\ \E read_ok \in BOOLEAN :
          Returns(get_elevation_profile(call.strip, call.nodata, call.coords,
                                        call.samples, read_ok))
    /\ UNCHANGED <<cacheVars, appVars>>

GetElevationProfilePixels ==
    /\ call.fn = "get_elevation_profile_pixels" /\ ~call.done
    /\ \E read_ok \in BOOLEAN :
          Returns(get_elevation_profile_pixels(call.strip, call.nodata, call.coords,
                                               call.samples, read_ok))
    /\ UNCHANGED <<cacheVars, appVars>>

InitProfile == EmptyCache(DefaultCapacity) /\ IdleApp /\ ProfileInputs
NextProfile == GetElevationProfile \/ GetElevationProfilePixels
SpecProfile == InitProfile /\ [][NextProfile]_vars

\* a profile call has returned a profile
Profiled == call.fn \in ProfileFns /\ call.done /\ call.out.ok

\* rise (sign = 1) or fall (sign = -1) summed over the pairs of samples that
\* are next to each other in the sequence and both valid
RECURSIVE AdjacentValidSum(_, _)
AdjacentValidSum(points, sign) ==
    IF Len(points) < 2 THEN 0
    ELSE LET d == sign * (points[2].elevation - points[1].elevation)
         IN  (IF points[1].is_valid /\ points[2].is_valid /\ d > 0 THEN d ELSE 0)
                + AdjacentValidSum(Tail(points), sign)

\* C10 (as claimed): in both profiles gain and loss are summed only between
\* two valid samples that are consecutive in the sample sequence; an invalid
\* sample adds nothing and resets the previous elevation, so the first valid
\* sample after it adds nothing either.
C10_Original ==
    Profiled =>
        /\ call.out.val.elevation_gain = AdjacentValidSum(call.out.val.points, 1)
        /\ call.out.val.elevation_loss = AdjacentValidSum(call.out.val.points, -1)

\* a profile whose samples are valid, invalid, valid: the rise across the
\* invalid sample is counted as gain
C10_Witness ==
    /\ Profiled
    /\ Len(call.out.val.points) = 3
    /\ call.out.val.points[1].is_valid /\ call.out.val.points[1].elevation = 10
    /\ ~call.out.val.points[2].is_valid
    /\ call.out.val.points[3].is_valid /\ call.out.val.points[3].elevation = 20
    /\ call.out.val.elevation_gain = 10
    /\ AdjacentValidSum(call.out.val.points, 1) = 0

\* every waypoint of the call is the first one (none or one waypoint included)
AllWaypointsSame ==
    \A i \in 1..Len(call.coords) : call.coords[i] = call.coords[1]

-----------------------------------------------------------------------------
(* commands/raster.rs: the two pixel queries, from the opened dataset on.      *)
(* Coordinates are in the units of the tile functions (1e-4 degree, or the     *)
(* metres of a projected dataset); NaN stands for a NaN coordinate.            *)

\* ((v - origin) / step).floor() as i32; NaN casts to 0
PixelIndex(v, origin, step) ==
    IF v = NaN THEN 0
    ELSE IF step > 0 THEN Floor(v - origin, step)
    ELSE Floor(origin - v, -step)

\* the negation of: pixel_x < 0 || pixel_x >= width || pixel_y < 0 || pixel_y >= height
PixelInsideMutInclusive(pixel_x, pixel_y, width, height) ==
    pixel_x >= 0 /\ pixel_x <= width /\ pixel_y >= 0 /\ pixel_y <= height
PixelInside(pixel_x, pixel_y, width, height) ==
    pixel_x >= 0 /\ pixel_x < width /\ pixel_y >= 0 /\ pixel_y < height

\* the sample of a band at a pixel, as GDAL reads it
PixelSample(ds, band, pixel_x, pixel_y) == BandSample(ds, band, pixel_x + pixel_y * ds.width)

\* the bounds check and the loop over the bands that both queries share;
\* fail = k: the read of band k fails, 0: none does
PixelValues(ds, pixel_x, pixel_y, fail) ==
    IF ~PixelInside(pixel_x, pixel_y, ds.width, ds.height)
    THEN Ok([x |-> pixel_x, y |-> pixel_y, values |-> <<>>, is_valid |-> FALSE])
    ELSE IF fail \in 1..ds.bands THEN Err("Failed to read pixel value")
    ELSE Ok([x |-> pixel_x, y |-> pixel_y,
             values |-> [band_idx \in 1..ds.bands |->
                            LET value == PixelSample(ds, band_idx, pixel_x, pixel_y)
                            IN  [band |-> band_idx, value |-> value,
                                 is_nodata |-> NodataMatch(value, ds.nodata[band_idx])]],
             is_valid |-> TRUE])

\* native: where PROJ puts (lng, lat) in the CRS of a projected dataset
QueryTargetPixel(ds, lng, lat, native, crs_ok) ==
    IF ds.gt = None THEN Err("Failed to get geotransform")
    ELSE IF ds.proj = "PROJCS" /\ ~crs_ok THEN Err("Failed to transform coordinates")
    ELSE LET gt == ds.gt[1]
             native_x == IF ds.proj = "PROJCS" THEN native[1] ELSE lng
             native_y == IF ds.proj = "PROJCS" THEN native[2] ELSE lat
         IN  Ok(<<PixelIndex(native_x, gt[1], gt[2]), PixelIndex(native_y, gt[3], gt[4])>>)

query_pixel_value(ds, lng, lat, native, crs_ok, fail) ==
    LET pixel == QueryTargetPixel(ds, lng, lat, native, crs_ok)
    IN  IF pixel.ok THEN PixelValues(ds, pixel.val[1], pixel.val[2], fail) ELSE pixel

query_pixel_value_at_pixel(ds, pixel_x, pixel_y, fail) ==
    PixelValues(ds, pixel_x, pixel_y, fail)

QueryFns == {"query_pixel_value", "query_pixel_value_at_pixel"}

\* longitudes and latitudes asked for: around the corners of the geographic
\* dataset (lon 10..20, lat 10..20), and NaN
QueryCoords == {10 * Deg - 1, 10 * Deg, 10 * Deg + 5000, 20 * Deg - 1, 20 * Deg, NaN}
\* where a transformation may land: around the corners of the projected dataset
NativeXs == {499999, 500000, 509999, 510000}
NativeYs == {4490000, 4490001, 4500000, 4500001}
\* pixel coordinates asked for: around the edges of the rasters
QueryPixels == {-1, 0, 9, 10, 999, 1000, 1999, 2000}

QueryInputs ==
    \/ \E d \in DatasetIds, lng \in QueryCoords, lat \in QueryCoords :
          call = [fn |-> "query_pixel_value", ds |-> d, x |-> lng, y |-> lat,
                  native |-> <<>>, done |-> FALSE, out |-> NoRes]
    \/ \E d \in DatasetIds, pixel_x \in QueryPixels, pixel_y \in QueryPixels :
          call = [fn |-> "query_pixel_value_at_pixel", ds |-> d, x |-> pixel_x,
                  y |-> pixel_y, native |-> <<>>, done |-> FALSE, out |-> NoRes]

QueryPixelValue ==
    /\ call.fn = "query_pixel_value" /\ ~call.done
    /\ \E crs_ok \in BOOLEAN, fail \in 0..2, nx \in NativeXs, ny \in NativeYs :
          LET ds == Datasets[call.ds]
              native == IF ds.proj = "PROJCS" /\ crs_ok THEN <<nx, ny>> ELSE <<>>
          IN  call' = [call EXCEPT
                         !.done = TRUE,
                         !.native = native,
                         !.out = query_pixel_value(ds, call.x, call.y, native, crs_ok, fail)]
    /\ UNCHANGED <<cacheVars, appVars>>

QueryPixelValueAtPixel ==
    /\ call.fn = "query_pixel_value_at_pixel" /\ ~call.done
    /\ \E fail \in 0..2 :
          Returns(query_pixel_value_at_pixel(Datasets[call.ds], call.x, call.y, fail))
    /\ UNCHANGED <<cacheVars, appVars>>

InitQuery == EmptyCache(DefaultCapacity) /\ IdleApp /\ QueryInputs
NextQuery == QueryPixelValue \/ QueryPixelValueAtPixel
SpecQuery == InitQuery /\ [][NextQuery]_vars

\* a pixel query has returned
Queried == call.fn \in QueryFns /\ call.done

\* k is the index of the pixel that holds coordinate v on a grid that starts
\* at origin with pixels of size step (step < 0: the grid runs downwards)
HoldsCoordinate(k, v, origin, step) ==
    IF v = NaN THEN k = 0
    ELSE IF step > 0
         THEN origin + k * step <= v /\ v < origin + (k + 1) * step
         ELSE origin + k * step >= v /\ v > origin + (k + 1) * step

\* the query got as far as a target pixel
TargetKnown ==
    \/ call.fn = "query_pixel_value_at_pixel"
    \/ /\ Datasets[call.ds].gt # None
       /\ Datasets[call.ds].proj = "PROJCS" => call.native # <<>>

\* the target pixel of the query
TargetPixel ==
    LET ds == Datasets[call.ds]
        at == IF ds.proj = "PROJCS" THEN call.native ELSE <<call.x, call.y>>
    IN  IF call.fn = "query_pixel_value_at_pixel" THEN <<call.x, call.y>>
        ELSE <<CHOOSE k \in -2..2001 : HoldsCoordinate(k, at[1], ds.gt[1][1], ds.gt[1][2]),
               CHOOSE k \in -2..2001 : HoldsCoordinate(k, at[2], ds.gt[1][3], ds.gt[1][4])>>

TargetOutside ==
    LET ds == Datasets[call.ds]
    IN  \/ TargetPixel[1] < 0 \/ TargetPixel[1] > ds.width - 1
        \/ TargetPixel[2] < 0 \/ TargetPixel[2] > ds.height - 1

\* C12: a pixel query whose target pixel is outside the raster returns Ok with
\* is_valid = false and no values, never an error; one whose target is inside
\* returns, when it returns a result, is_valid = true and one entry per band
\* in the order 1..bands, each with the band's sample and flagged is_nodata
\* exactly when the sample is within 1e-10 of the band's nodata.
C12_OutsideIsInvalidNotError ==
    (Queried /\ TargetKnown) =>
        LET ds == Datasets[call.ds]
            t == TargetPixel
        IN  IF TargetOutside
            THEN call.out = Ok([x |-> t[1], y |-> t[2], values |-> <<>>, is_valid |-> FALSE])
            ELSE call.out.ok =>
                    /\ call.out.val.is_valid
                    /\ call.out.val.x = t[1] /\ call.out.val.y = t[2]
                    /\ Len(call.out.val.values) = ds.bands
                    /\ \A b \in 1..ds.bands :
                          LET e == call.out.val.values[b]
                              nd == ds.nodata[b]
                          IN  /\ e.band = b
                              /\ e.value = PixelSample(ds, b, t[1], t[2])
                              /\ e.is_nodata <=>
                                    /\ nd # None /\ e.value # NaN /\ nd[1] # NaN
                                    /\ (e.value - nd[1]) \in -1..1

\* a geographic query one pixel past the right edge is answered, not refused
C12_Witness ==
    /\ Queried /\ call.fn = "query_pixel_value" /\ call.ds = 1
    /\ call.x = 20 * Deg
    /\ call.out.ok /\ ~call.out.val.is_valid /\ call.out.val.x = 10

\* a query inside the raster has one band flagged as nodata and one not
C12_WitnessInside ==
    /\ Queried /\ call.out.ok /\ call.out.val.is_valid
    /\ call.out.val.values[1].is_nodata /\ ~call.out.val.values[2].is_nodata

-----------------------------------------------------------------------------
(* commands/raster.rs: compute_histogram_bins                              *)
(*                                                                         *)
(* The values, min, max and nodata are f64 samples as above.  The edges    *)
(* are the only results of rounded arithmetic: range / bin_count is not    *)
(* representable in general.  The model keeps IEEE round-to-nearest-even   *)
(* and shortens the significand from 53 bits to Significand bits; an edge  *)
(* is an integer count of 1/EdgeScale of a unit, and every quotient met    *)
(* here is at least 2^(Significand-1) of them, so every rounded value is   *)
(* such an integer.                                                        *)

MaxBins == 3
MaxHistValues == 2

Significand == 5
EdgeScale == 64

HistValues == {0, 2, 3, 4, 7, NaN, PosInf}
HistNodatas == {None, Some(3), Some(NaN), Some(PosInf)}
HistMins == {-1, 0, 2}
HistMaxs == {2, 3, 4, 7, 25}
BinCounts == 1..MaxBins

Pow2(e) == IF e = 0 THEN 1 ELSE 2 ^ e

\* the spacing of the representable numbers around a / b > 0
Quantum(a, b) ==
    IF a < b * Pow2(Significand) THEN 1
    ELSE CHOOSE q \in {Pow2(e) : e \in 1..12} :
             a >= b * q * Pow2(Significand - 1) /\ a < b * q * Pow2(Significand)

\* a / b > 0 rounded to the nearest representable number, ties to even
RoundPositive(a, b) ==
    LET q == Quantum(a, b)
        k == a \div (b * q)
        twice == 2 * (a - k * b * q)
    IN  IF twice < b * q THEN k * q
        ELSE IF twice > b * q THEN (k + 1) * q
        ELSE IF k % 2 = 0 THEN k * q ELSE (k + 1) * q

\* the f64 result of an operation whose exact value is a / b, b > 0
RoundFloat(a, b) ==
    IF a = 0 THEN 0 ELSE IF a < 0 THEN -RoundPositive(-a, b) ELSE RoundPositive(a, b)

\* (v - nd).abs() >= 1e-10 ; false as soon as the difference is NaN
FarFrom(v, nd) ==
    CASE v = NaN \/ nd = NaN -> FALSE
      [] ~IsFinite(v) /\ ~IsFinite(nd) -> v # nd
      [] ~IsFinite(v) \/ ~IsFinite(nd) -> TRUE
      [] OTHER -> ~Near(v, nd)

\* value >= min && value <= max
InRangeMutExclusiveMax(value, min, max) == IsFinite(value) /\ value >= min /\ value < max
InRange(value, min, max) == IsFinite(value) /\ value >= min /\ value <= max

\* ((value - min) / range * (bin_count - 1) as f64).floor() as usize, then .min(bin_count - 1);
\* the exact floor: rounding of the quotient is not modelled here
BinIndex(value, min, range, bin_count) ==
    Min2(((value - min) * (bin_count - 1)) \div range, bin_count - 1)

\* the loop of the branch range > 0.0
RECURSIVE BinLoop(_, _, _, _, _, _)
BinLoop(values, min, max, bin_count, nodata, counts) ==
    IF values = <<>> THEN counts
    ELSE LET value == Head(values)
             bin_idx == BinIndex(value, min, max - min, bin_count)
             counted == ~NodataMatch(value, nodata) /\ InRange(value, min, max)
         IN  BinLoop(Tail(values), min, max, bin_count, nodata,
                     IF counted THEN [counts EXCEPT ![bin_idx + 1] = @ + 1] ELSE counts)

\* the branch range <= 0.0: valid_count
ValidCount(values, nodata) ==
    IF IsSome(nodata)
    THEN Cardinality({i \in 1..Len(values) : FarFrom(values[i], nodata[1])})
    ELSE Len(values)

\* min + i as f64 * bin_width, for bin_width = range / bin_count
BinEdge(min, range, bin_count, i) ==
    LET bin_width == RoundFloat(range * EdgeScale, bin_count)
        step == RoundFloat(i * bin_width, 1)
    IN  RoundFloat(min * EdgeScale + step, 1)

compute_histogram_bins(values, min, max, bin_count, nodata) ==
    LET zeros == [i \in 1..bin_count |-> 0]
        range == max - min
    IN  [counts |-> IF range > 0
                    THEN BinLoop(values, min, max, bin_count, nodata, zeros)
                    ELSE [zeros EXCEPT ![1] = ValidCount(values, nodata)],
         bin_edges |-> [j \in 1..(bin_count + 1) |-> BinEdge(min, range, bin_count, j - 1)]]

HistogramInputs ==
    \E values \in UNION {[1..n -> HistValues] : n \in 0..MaxHistValues},
       min \in HistMins, max \in HistMaxs, bin_count \in BinCounts, nodata \in HistNodatas :
        /\ max >= min
        /\ call = [fn |-> "compute_histogram_bins", values |-> values, min |-> min, max |-> max,
                   bin_count |-> bin_count, nodata |-> nodata, done |-> FALSE, out |-> None]

ComputeHistogramBins ==
    /\ call.fn = "compute_histogram_bins" /\ ~call.done
    /\ Returns(compute_histogram_bins(call.values, call.min, call.max, call.bin_count,
                                      call.nodata))
    /\ UNCHANGED <<cacheVars, appVars>>

InitHistogram == EmptyCache(DefaultCapacity) /\ IdleApp /\ HistogramInputs
NextHistogram == ComputeHistogramBins
SpecHistogram == InitHistogram /\ [][NextHistogram]_vars

\* the call of compute_histogram_bins has returned
Binned == call.fn = "compute_histogram_bins" /\ call.done

\* the input values that lie in [min, max], both ends included
Inside == {i \in 1..Len(call.values) :
              IsFinite(call.values[i]) /\ call.min <= call.values[i] /\ call.values[i] <= call.max}

\* the input values that do not match nodata
Unmatched == {i \in 1..Len(call.values) : ~NodataMatch(call.values[i], call.nodata)}

LastEdge == call.out.bin_edges[call.bin_count + 1]

\* the sizes, the sum and the first edge of a histogram over max > min
HistogramShape ==
    /\ Len(call.out.counts) = call.bin_count
    /\ SumSeq(call.out.counts)
         = Cardinality(Unmatched \cap Inside)
    /\ Len(call.out.bin_edges) = call.bin_count + 1
    /\ call.out.bin_edges[1] = call.min * EdgeScale

C13_WitnessExact ==
    /\ Binned /\ call.max > call.min
    /\ LastEdge = call.max * EdgeScale
    /\ call.values = <<call.max, PosInf>>
    /\ call.out.counts[call.bin_count] = 1

\* C14 as stated: over max = min, counts[0] is the number of input values that do not match
\* nodata, every other count is 0 and every one of the bin_count + 1 edges is min.
C14_Original ==
    (Binned /\ call.max = call.min) =>
        /\ call.out.counts[1] = Cardinality(Unmatched)
        /\ \A i \in 2..call.bin_count : call.out.counts[i] = 0
        /\ Len(call.out.bin_edges) = call.bin_count + 1
        /\ \A j \in 1..(call.bin_count + 1) : call.out.bin_edges[j] = call.min * EdgeScale

\* a NaN sample beside a finite nodata value: it matches no nodata value and is not counted
C14_Witness ==
    /\ Binned /\ call.max = call.min
    /\ call.values = <<0, NaN>>
    /\ call.nodata = Some(3)
    /\ call.out.counts[1] = 1

-----------------------------------------------------------------------------
(* tile_extractor.rs: bounds_intersect on its own, over every pair of boxes *)
(* [min_x, min_y, max_x, max_y] with corners on a small grid or NaN         *)

BoxCoords == {0, 1, 2, NaN}
Boxes == [1..4 -> BoxCoords]

BoundsInputs ==
    \E a \in Boxes, b \in Boxes :
        call = [fn |-> "bounds_intersect", a |-> a, b |-> b, done |-> FALSE, out |-> None]

BoundsIntersect ==
    /\ call.fn = "bounds_intersect" /\ ~call.done
    /\ Returns(bounds_intersect(call.a, call.b))
    /\ UNCHANGED <<cacheVars, appVars>>

InitBounds == EmptyCache(DefaultCapacity) /\ IdleApp /\ BoundsInputs
NextBounds == BoundsIntersect
SpecBounds == InitBounds /\ [][NextBounds]_vars

\* the call of bounds_intersect has returned
Intersected == call.fn = "bounds_intersect" /\ call.done

\* a box with finite corners and min <= max on both axes
WellFormed(box) == (\A i \in 1..4 : box[i] # NaN) /\ box[1] <= box[3] /\ box[2] <= box[4]

\* the point <<x, y>> lies in the closed box
InBox(x, y, box) == box[1] <= x /\ x <= box[3] /\ box[2] <= y /\ y <= box[4]

\* one box lies wholly to one side of the other on the given axis (1: x, 2: y)
SeparatedOn(axis, a, b) ==
    \/ a[axis + 2] # NaN /\ b[axis] # NaN /\ a[axis + 2] < b[axis]
    \/ b[axis + 2] # NaN /\ a[axis] # NaN /\ b[axis + 2] < a[axis]

\* C15: bounds_intersect(a, b) is true exactly when none of a.maxX < b.minX, a.minX > b.maxX,
\* a.maxY < b.minY, a.minY > b.maxY holds; it is symmetric in a and b; for two well-formed boxes
\* it is true exactly when they share a point, so touching edges or corners and containment
\* give true and a gap on either axis gives false.
C15_InclusiveIntersection ==
    Intersected =>
        /\ call.out = (~SeparatedOn(1, call.a, call.b) /\ ~SeparatedOn(2, call.a, call.b))
        /\ call.out = bounds_intersect(call.b, call.a)
        /\ (WellFormed(call.a) /\ WellFormed(call.b)) =>
              (call.out = (\E x, y \in 0..2 : InBox(x, y, call.a) /\ InBox(x, y, call.b)))

\* two boxes that touch in one corner only
C15_Witness ==
    /\ Intersected
    /\ call.a = <<0, 0, 1, 1>> /\ call.b = <<1, 1, 2, 2>>
    /\ call.out = TRUE

\* a box inside the other, and two boxes with a gap on the x axis only
C15_WitnessContained ==
    Intersected /\ call.a = <<0, 0, 2, 2>> /\ call.b = <<1, 1, 1, 1>> /\ call.out = TRUE
C15_WitnessSeparated ==
    Intersected /\ call.a = <<0, 0, 0, 2>> /\ call.b = <<1, 0, 2, 2>> /\ call.out = FALSE

-----------------------------------------------------------------------------
(* Band statistics: compute_band_stats and get_raster_stats (raster.rs),    *)
(* get_default_band_stats and get_band_metadata_stats (stac.rs).            *)
(*                                                                          *)
(* A statistic is an integer count of 1/StatScale; the minima and maxima    *)
(* are whole numbers, so the halves and quarters below are exact.           *)

StatScale == 20

\* what band.compute_raster_min_max(true) returns: None when it fails
MinMaxResults == {None, Some([min |-> 0, max |-> 255 * StatScale]),
                  Some([min |-> -3 * StatScale, max |-> 5 * StatScale]),
                  Some([min |-> 2 * StatScale, max |-> 2 * StatScale])}

\* a band of a local dataset: None when dataset.rasterband(i) fails
LocalBands == {None} \cup {Some([min_max |-> r]) : r \in MinMaxResults}

GdalDataTypes == {"UInt8", "Int8", "UInt16", "Int16", "UInt32", "Float32", "Float64", "Int32"}

\* band.metadata_item(key, ""): None when the key is absent
MetadataItems ==
    [STATISTICS_MINIMUM : {None, Some("0"), Some("n/a")},
     STATISTICS_MAXIMUM : {None, Some("100")},
     STATISTICS_MEAN : {None, Some("40"), Some("n/a")},
     STATISTICS_STDDEV : {None, Some("10")}]

\* a band of a remote dataset: None when dataset.rasterband(i) fails
RemoteBands == {None} \cup {Some([metadata |-> md, band_type |-> t]) :
                                md \in MetadataItems, t \in GdalDataTypes}

StatBandCounts == 1..2

\* s.parse::<f64>().ok()
ParseF64(s) ==
    CASE s = "0" -> Some(0)
      [] s = "10" -> Some(10 * StatScale)
      [] s = "40" -> Some(40 * StatScale)
      [] s = "100" -> Some(100 * StatScale)
      [] OTHER -> None

\* band.metadata_item(key, "").and_then(|s| s.parse::<f64>().ok())
MetadataNumber(item) == IF IsSome(item) THEN ParseF64(item[1]) ELSE None

\* (min + max) / 2.0 and (max - min) / 4.0
MidRangeMutThird(min, max) == (min + max) \div 3
MidRange(min, max) == (min + max) \div 2
QuarterRange(min, max) == (max - min) \div 4

BandStats(band, min, max, mean, std_dev) ==
    [band |-> band, min |-> min, max |-> max, mean |-> mean, std_dev |-> std_dev]

\* the BandStats computed from a min/max pair
MinMaxStats(band, mm) ==
    BandStats(band, mm.min, mm.max, MidRange(mm.min, mm.max), QuarterRange(mm.min, mm.max))

\* compute_band_stats: a band that cannot be fetched or measured is left out
RECURSIVE compute_band_stats(_, _)
compute_band_stats(bands, i) ==
    IF i > Len(bands) THEN <<>>
    ELSE (IF IsSome(bands[i]) /\ IsSome(bands[i][1].min_max)
          THEN <<MinMaxStats(i, bands[i][1].min_max[1])>> ELSE <<>>)
         \o compute_band_stats(bands, i + 1)

\* get_raster_stats, from dataset.rasterband(band as usize) on
get_raster_stats(bands, band) ==
    IF band < 1 \/ band > Len(bands) \/ ~IsSome(bands[band]) THEN Err("Failed to get band")
    ELSE IF ~IsSome(bands[band][1].min_max) THEN Err("Failed to compute statistics")
    ELSE Ok(MinMaxStats(band, bands[band][1].min_max[1]))

get_band_metadata_stats(md) ==
    LET min == MetadataNumber(md.STATISTICS_MINIMUM)
        max == MetadataNumber(md.STATISTICS_MAXIMUM)
        mean == MetadataNumber(md.STATISTICS_MEAN)
        std_dev == MetadataNumber(md.STATISTICS_STDDEV)
    IN  IF IsSome(min) /\ IsSome(max)
        THEN Some(<<min[1], max[1], UnwrapOr(mean, MidRange(min[1], max[1])),
                    UnwrapOr(std_dev, QuarterRange(min[1], max[1]))>>)
        ELSE None

\* the data-type table: (min, max, mean, std_dev)
DefaultStats(band_type) ==
    CASE band_type = "UInt8" -> <<0, 255 * StatScale, 128 * StatScale, 64 * StatScale>>
      [] band_type = "Int8" -> <<-128 * StatScale, 127 * StatScale, 0, 64 * StatScale>>
      [] band_type = "Int16" -> <<-10000 * StatScale, 10000 * StatScale, 0, 2000 * StatScale>>
      [] band_type \in {"Float32", "Float64"} -> <<0, StatScale, 6, 4>>
      [] OTHER -> <<0, 10000 * StatScale, 3000 * StatScale, 2000 * StatScale>>

RECURSIVE get_default_band_stats(_, _)
get_default_band_stats(bands, i) ==
    IF i > Len(bands) THEN <<>>
    ELSE (IF IsSome(bands[i])
          THEN LET metadata_stats == get_band_metadata_stats(bands[i][1].metadata)
                   s == IF IsSome(metadata_stats) THEN metadata_stats[1]
                        ELSE DefaultStats(bands[i][1].band_type)
               IN  <<BandStats(i, s[1], s[2], s[3], s[4])>>
          ELSE <<>>)
         \o get_default_band_stats(bands, i + 1)

StatsFns == {"open_raster", "get_raster_stats", "open_stac_asset"}

StatsInputs ==
    \/ \E n \in StatBandCounts : \E bands \in [1..n -> LocalBands] :
          call = [fn |-> "open_raster", bands |-> bands, band |-> 0, done |-> FALSE, out |-> None]
    \/ \E n \in StatBandCounts : \E bands \in [1..n -> LocalBands], band \in 0..(n + 1) :
          call = [fn |-> "get_raster_stats", bands |-> bands, band |-> band,
                  done |-> FALSE, out |-> None]
    \/ \E n \in StatBandCounts : \E bands \in [1..n -> RemoteBands] :
          call = [fn |-> "open_stac_asset", bands |-> bands, band |-> 0,
                  done |-> FALSE, out |-> None]

\* open_raster: band_stats = compute_band_stats(&dataset)
OpenRasterStats ==
    /\ call.fn = "open_raster" /\ ~call.done
    /\ Returns(compute_band_stats(call.bands, 1))
    /\ UNCHANGED <<cacheVars, appVars>>

GetRasterStats ==
    /\ call.fn = "get_raster_stats" /\ ~call.done
    /\ Returns(get_raster_stats(call.bands, call.band))
    /\ UNCHANGED <<cacheVars, appVars>>

\* open_stac_asset: band_stats = get_default_band_stats(&dataset)
OpenStacAssetStats ==
    /\ call.fn = "open_stac_asset" /\ ~call.done
    /\ Returns(get_default_band_stats(call.bands, 1))
    /\ UNCHANGED <<cacheVars, appVars>>

InitStats == EmptyCache(DefaultCapacity) /\ IdleApp /\ StatsInputs
NextStats == OpenRasterStats \/ GetRasterStats \/ OpenStacAssetStats
SpecStats == InitStats /\ [][NextStats]_vars

\* the BandStats records the finished call produced
StatsRecords ==
    IF ~(call.fn \in StatsFns /\ call.done) THEN {}
    ELSE IF call.fn = "get_raster_stats" THEN (IF call.out.ok THEN {call.out.val} ELSE {})
    ELSE {call.out[i] : i \in 1..Len(call.out)}

Approximated(s) == 2 * s.mean = s.min + s.max /\ 4 * s.std_dev = s.max - s.min

\* C16 as stated: every BandStats record of open_raster, get_raster_stats and open_stac_asset
\* has mean = (min + max) / 2 and std_dev = (max - min) / 4.
C16_Original == \A s \in StatsRecords : Approximated(s)

\* an 8-bit band without embedded statistics: 0, 255, 128, 64
C16_Witness ==
    /\ call.fn = "open_stac_asset" /\ call.done
    /\ Len(call.out) = 1
    /\ call.out[1] = BandStats(1, 0, 255 * StatScale, 128 * StatScale, 64 * StatScale)

\* the embedded statistics of the band a remote record describes
EmbeddedOf(s) ==
    LET md == call.bands[s.band][1].metadata
    IN  [min |-> MetadataNumber(md.STATISTICS_MINIMUM), max |-> MetadataNumber(md.STATISTICS_MAXIMUM),
         mean |-> MetadataNumber(md.STATISTICS_MEAN), std_dev |-> MetadataNumber(md.STATISTICS_STDDEV)]

\* C16: every BandStats record of open_raster and get_raster_stats has mean = (min + max) / 2 and
\* std_dev = (max - min) / 4.  A record of open_stac_asset whose band embeds a minimum and a
\* maximum carries them, with the embedded mean and standard deviation where present and the
\* formula for each one that is absent; a band that does not embed both gets the row of the
\* data-type table, whose mean and std_dev are table values (8-bit: 0, 255, 128, 64).
C16_ApproximatedUnlessEmbedded ==
    \A s \in StatsRecords :
        IF call.fn # "open_stac_asset" THEN Approximated(s)
        ELSE LET e == EmbeddedOf(s)
             IN  IF IsSome(e.min) /\ IsSome(e.max)
                 THEN /\ s.min = e.min[1] /\ s.max = e.max[1]
                      /\ IF IsSome(e.mean) THEN s.mean = e.mean[1] ELSE 2 * s.mean = s.min + s.max
                      /\ IF IsSome(e.std_dev) THEN s.std_dev = e.std_dev[1]
                         ELSE 4 * s.std_dev = s.max - s.min
                 ELSE <<s.min, s.max, s.mean, s.std_dev>>
                          = DefaultStats(call.bands[s.band][1].band_type)

\* a remote band that embeds minimum, maximum and standard deviation but no usable mean
C16_WitnessEmbedded ==
    /\ call.fn = "open_stac_asset" /\ call.done
    /\ Len(call.bands) = 1 /\ IsSome(call.bands[1])
    /\ call.bands[1][1].metadata.STATISTICS_MEAN = Some("n/a")
    /\ Len(call.out) = 1
    /\ call.out[1] = BandStats(1, 0, 100 * StatScale, 50 * StatScale, 10 * StatScale)

-----------------------------------------------------------------------------
(* Error propagation of the tile operations *)

\* C17 as stated, for extract_tile: when the band lookup or the min/max computation fails, the
\* operation returns an error to its caller.
C17_Original ==
    (call.fn = "extract_tile" /\ call.done) =>
        ((call.bands[1] \notin 1..CallDataset(1).bands \/ call.faults # {}) => ~call.out.ok)

\* a rendered, non-empty tile although compute_raster_min_max failed
C17_Witness ==
    /\ call.fn = "extract_tile" /\ call.done
    /\ call.faults = {"compute_raster_min_max"}
    /\ call.out.ok
    /\ ~IsTransparentTile(call.out)

-----------------------------------------------------------------------------
(* The shape of every rendered tile *)

\* the samples a single-band call reads, when the read works
SingleData ==
    IF call.fn = "extract_pixel_tile"
    THEN extract_raw_pixel_tile(CallDataset(1), TileRequest(call.tile, call.bands[1]), TRUE).val
    ELSE extract_raw_tile(CallDataset(1), TileRequest(call.tile, call.bands[1]), TRUE).val

\* the stretch a single-band call renders with
SingleStretch ==
    IF call.fn # "extract_tile" THEN call.stretch[1]
    ELSE IF call.faults # {} THEN [min |-> 0, max |-> FallbackMax, gamma |-> <<1, 1>>]
    ELSE LET stats == BandMinMax(CallDataset(1), call.bands[1])
         IN  [min |-> stats.min, max |-> stats.max, gamma |-> <<1, 1>>]

\* C18: every successful tile call encodes tile_size * tile_size * 4 bytes for an image of side
\* tile_size; every pixel is (0, 0, 0, 0) or has alpha 255; in the single-band functions an opaque
\* pixel has R = G = B = the stretched byte of its sample.
C18_TileShape ==
    (Rendered /\ call.out.ok) =>
        /\ call.out.val.png = TileSize
        /\ Len(call.out.val.rgba) = TileSize * TileSize * 4
        /\ \A i \in 1..(TileSize * TileSize) :
              \/ OutPixel(i) = <<0, 0, 0, 0>>
              \/ /\ OutPixel(i)[4] = 255
                 /\ call.fn \in TileFns1 =>
                       LET byte == apply_stretch(SingleData[i], SingleStretch, ChannelNodata(1))
                       IN  /\ IsSome(byte)
                           /\ OutPixel(i) = <<byte[1], byte[1], byte[1], 255>>

\* a single-band tile with a transparent pixel and an opaque one that is not black
C18_Witness ==
    /\ Rendered /\ call.out.ok
    /\ call.fn = "extract_tile_with_stretch"
    /\ \E i, j \in 1..(TileSize * TileSize) :
          /\ OutPixel(i) = <<0, 0, 0, 0>>
          /\ OutPixel(j)[4] = 255 /\ OutPixel(j)[1] > 0 /\ OutPixel(j)[1] = OutPixel(j)[3]

-----------------------------------------------------------------------------
(* tile_extractor.rs: tile_to_web_mercator_bounds                           *)
(*                                                                          *)
(* The arithmetic is the rounded arithmetic of RoundFloat: a coordinate is  *)
(* an integer count of 1/EdgeScale.  The half extent 20037508.342789244     *)
(* fills the 53 bits of an f64; its stand-in HalfExtent fills the           *)
(* Significand bits of the model.  Multiplying or dividing by a power of    *)
(* two is exact.                                                            *)

HalfExtent == 21

MercatorTiles == UNION {[x : -1..(2 ^ z), y : -1..(2 ^ z), z : {z}] : z \in 0..MaxZoom}

TileToWebMercatorBoundsMutNextColumn(x, y, z) ==
    LET tile_size == (HalfExtent * EdgeScale * 2) \div (2 ^ z)
        min_x == RoundFloat(-(HalfExtent * EdgeScale) + RoundFloat((x + 1) * tile_size, 1), 1)
        max_x == RoundFloat(min_x + tile_size, 1)
        max_y == RoundFloat(HalfExtent * EdgeScale - RoundFloat(y * tile_size, 1), 1)
        min_y == RoundFloat(max_y - tile_size, 1)
    IN  <<min_x, min_y, max_x, max_y>>
tile_to_web_mercator_bounds(x, y, z) ==
    LET n == 2 ^ z
        world_size == HalfExtent * EdgeScale * 2
        tile_size == world_size \div n
        min_x == RoundFloat(-(HalfExtent * EdgeScale) + RoundFloat(x * tile_size, 1), 1)
        max_x == RoundFloat(min_x + tile_size, 1)
        max_y == RoundFloat(HalfExtent * EdgeScale - RoundFloat(y * tile_size, 1), 1)
        min_y == RoundFloat(max_y - tile_size, 1)
    IN  <<min_x, min_y, max_x, max_y>>

MercatorInputs ==
    \E t \in MercatorTiles :
        call = [fn |-> "tile_to_web_mercator_bounds", tile |-> t, done |-> FALSE, out |-> None]

TileToWebMercatorBounds ==
    /\ call.fn = "tile_to_web_mercator_bounds" /\ ~call.done
    /\ Returns(tile_to_web_mercator_bounds(call.tile.x, call.tile.y, call.tile.z))
    /\ UNCHANGED <<cacheVars, appVars>>

InitMercator == EmptyCache(DefaultCapacity) /\ IdleApp /\ MercatorInputs
NextMercator == TileToWebMercatorBounds
SpecMercator == InitMercator /\ [][NextMercator]_vars

\* the bounds of a tile of the grid have been computed
Bounded ==
    /\ call.fn = "tile_to_web_mercator_bounds" /\ call.done
    /\ call.tile.x \in 0..(2 ^ call.tile.z - 1)
    /\ call.tile.y \in 0..(2 ^ call.tile.z - 1)

\* the bounds of the tile opposite to the call's tile
MirrorBounds ==
    tile_to_web_mercator_bounds(2 ^ call.tile.z - 1 - call.tile.x,
                                2 ^ call.tile.z - 1 - call.tile.y, call.tile.z)

\* the exact side of a tile, and the rounding allowed to a corner: twice the spacing of the
\* representable numbers around the half extent
ExactSide == (2 * HalfExtent * EdgeScale) \div (2 ^ call.tile.z)
CornerSlack == 2 * Quantum(HalfExtent * EdgeScale, 1)

\* C19 as stated: min < max on both axes, both sides are the world extent / 2^z, the opposite
\* tile's bounds are the point reflection about the origin, and the tile of zoom 0 is
\* [-H, -H, H, H].
C19_Original ==
    Bounded =>
        /\ call.out[1] < call.out[3] /\ call.out[2] < call.out[4]
        /\ call.out[3] - call.out[1] = ExactSide /\ call.out[4] - call.out[2] = ExactSide
        /\ MirrorBounds = <<-call.out[3], -call.out[4], -call.out[1], -call.out[2]>>
        /\ call.tile.z = 0 =>
              call.out = <<-(HalfExtent * EdgeScale), -(HalfExtent * EdgeScale),
                           HalfExtent * EdgeScale, HalfExtent * EdgeScale>>

\* C19: min < max on both axes; at zoom 0 and 1 the sides are exactly the world extent / 2^z, the
\* opposite tile's bounds are exactly the point reflection, and the tile of zoom 0 is
\* [-H, -H, H, H]; from zoom 2 on the side and the reflection hold up to the rounding of
\* x * tile_size and of the two sums.
C19_SymmetricUpToRounding ==
    Bounded =>
        /\ call.out[1] < call.out[3] /\ call.out[2] < call.out[4]
        /\ Abs(call.out[3] - call.out[1] - ExactSide) <= CornerSlack
        /\ Abs(call.out[4] - call.out[2] - ExactSide) <= CornerSlack
        /\ \A k \in 1..4 :
              Abs(MirrorBounds[k] + call.out[IF k <= 2 THEN k + 2 ELSE k - 2]) <= CornerSlack
        /\ call.tile.z <= 1 =>
              /\ call.out[3] - call.out[1] = ExactSide /\ call.out[4] - call.out[2] = ExactSide
              /\ MirrorBounds = <<-call.out[3], -call.out[4], -call.out[1], -call.out[2]>>
        /\ call.tile.z = 0 =>
              call.out = <<-(HalfExtent * EdgeScale), -(HalfExtent * EdgeScale),
                           HalfExtent * EdgeScale, HalfExtent * EdgeScale>>

\* the last column of zoom 2: its right edge is not the half extent
C19_Witness ==
    /\ Bounded
    /\ call.tile = [x |-> 3, y |-> 0, z |-> 2]
    /\ call.out[3] # HalfExtent * EdgeScale
    /\ call.out[4] = HalfExtent * EdgeScale

\* the two tiles of zoom 1 on the diagonal are exact reflections
C19_WitnessZoomOne ==
    /\ Bounded
    /\ call.tile = [x |-> 0, y |-> 0, z |-> 1]
    /\ call.out = <<-(HalfExtent * EdgeScale), 0, 0, HalfExtent * EdgeScale>>
    /\ MirrorBounds = <<0, -(HalfExtent * EdgeScale), HalfExtent * EdgeScale, 0>>

-----------------------------------------------------------------------------
(* Gamma and brightness *)

\* gamma g is smaller than gamma h
GammaLess(g, h) == g[1] * h[2] < h[1] * g[2]

\* the byte the call's value and window give under another gamma
ByteUnder(g) == apply_stretch(call.val, [call.stretch EXCEPT !.gamma = g], None)[1]

\* apply_stretch has returned for a non-zero value strictly inside the window, without nodata
InsideWindow ==
    /\ Stretched /\ call.nodata = None
    /\ IsFinite(call.val) /\ call.val # 0
    /\ call.stretch.min < call.val /\ call.val < call.stretch.max

\* C20 as stated: for a value strictly inside the window and nodata = None, a larger gamma gives
\* a byte that is not smaller, and strictly larger unless the byte is saturated (at 0 or 255);
\* so gamma < 1 is darker and gamma > 1 brighter than gamma = 1.
C20_Original ==
    InsideWindow =>
        \A h \in Gammas : GammaLess(call.stretch.gamma, h) =>
            \/ call.out[1] < ByteUnder(h)
            \/ call.out[1] = ByteUnder(h) /\ call.out[1] \in {0, 255}

\* C20: for a value strictly inside the window, nodata = None and gamma > 0, a larger gamma never
\* gives a smaller byte: gamma < 1 is never brighter and gamma > 1 never darker than gamma = 1.
\* Two gammas can give the same byte, also away from 0 and 255.
C20_GammaNeverDarkens ==
    InsideWindow =>
        \A h \in Gammas : GammaLess(call.stretch.gamma, h) => call.out[1] <= ByteUnder(h)

\* 999/1000 of the window: 254 under gamma 1/2 and under gamma 2
C20_Witness ==
    /\ InsideWindow
    /\ call.val = 3 /\ call.stretch = [min |-> -996, max |-> 4, gamma |-> <<1, 2>>]
    /\ call.out = Some(254)
    /\ ByteUnder(<<2, 1>>) = 254

\* a quarter of the window: 15, 63 and 127 under gamma 1/2, 1 and 2
C20_WitnessStrict ==
    /\ InsideWindow
    /\ call.val = -1 /\ call.stretch = [min |-> -2, max |-> 2, gamma |-> <<1, 1>>]
    /\ call.out = Some(63)
    /\ ByteUnder(<<1, 2>>) = 15 /\ ByteUnder(<<2, 1>>) = 127

-----------------------------------------------------------------------------
(* commands/raster.rs: the two profile commands statement by statement, from  *)
(* the cache lookup to the result.  The raster is the strip of the profiles   *)
(* above (geographic, so no coordinate transformation is built); call.io is   *)
(* the history of the accesses to the dataset the request has made.           *)

CommandStrips == {<<10, 20, NoDataElev>>, <<20, 10, 10>>}
CommandIds == {1, 2}

\* the cache after one open_raster
OneCached ==
    /\ capacity = DefaultCapacity
    /\ cache = <<[id |-> 1, path |-> "a.tif"]>>
    /\ clock = 0
    /\ lastUsed = <<>>
    /\ lastOp = NewOp(DefaultCapacity)

CommandInputs ==
    \E fn \in ProfileFns, id \in CommandIds, strip \in CommandStrips,
       coords \in Polylines, samples \in SampleCounts :
        call = [fn |-> fn, id |-> id, strip |-> strip, nodata |-> Some(NoDataElev),
                coords |-> coords, samples |-> samples, step |-> "get_path", io |-> <<>>,
                done |-> FALSE, out |-> NoRes]

\* the request moves on to the next statement, having made the access (if any)
Advance(step, access) ==
    call' = [call EXCEPT !.step = step, !.io = @ \o access]

\* the request returns
Return(result, access) ==
    call' = [call EXCEPT !.step = "returned", !.done = TRUE, !.out = result, !.io = @ \o access]

\* let path = state.get_path(&id).ok_or("Dataset not found")?
CommandGetPath ==
    /\ call.fn \in ProfileFns /\ call.step = "get_path"
    /\ cache' = AfterGet(cache, call.id)
    /\ IF PeekPath(cache, call.id) = None
       THEN Return(Err("Dataset not found"), <<>>)
       ELSE Advance("open", <<>>)
    /\ UNCHANGED <<capacity, clock, lastUsed, lastOp, appVars>>

\* let dataset = Dataset::open(&path).map_err(..)?
CommandOpen ==
    /\ call.fn \in ProfileFns /\ call.step = "open"
    /\ \E opened \in BOOLEAN :
          IF opened
          THEN Advance(IF call.fn = "get_elevation_profile" THEN "geo_transform" ELSE "rasterband",
                       <<"Dataset::open">>)
          ELSE Return(Err("Failed to open raster"), <<"Dataset::open">>)
    /\ UNCHANGED <<cacheVars, appVars>>

\* let gt = dataset.geo_transform().map_err(..)?; projection, raster_size
CommandGeoTransform ==
    /\ call.fn = "get_elevation_profile" /\ call.step = "geo_transform"
    /\ \E gt_ok \in BOOLEAN :
          IF gt_ok THEN Advance("rasterband", <<"geo_transform">>)
          ELSE Return(Err("Failed to get geotransform"), <<"geo_transform">>)
    /\ UNCHANGED <<cacheVars, appVars>>

\* let band = dataset.rasterband(1).map_err(..)?; nodata
CommandBand ==
    /\ call.fn \in ProfileFns /\ call.step = "rasterband"
    /\ \E band_ok \in BOOLEAN :
          IF band_ok THEN Advance("measure", <<"rasterband">>)
          ELSE Return(Err("Failed to get band"), <<"rasterband">>)
    /\ UNCHANGED <<cacheVars, appVars>>

\* the segment lengths, total_distance and the test total_distance == 0.0
CommandMeasure ==
    /\ call.fn \in ProfileFns /\ call.step = "measure"
    /\ LET segment_lengths == SegmentLengths(call.fn, call.coords)
       IN  IF LineHasZeroLength(segment_lengths, SumSeq(segment_lengths))
           THEN Return(Err("Line has zero length"), <<>>)
           ELSE Advance("sample", <<>>)
    /\ UNCHANGED <<cacheVars, appVars>>

\* the loop over the samples and the result; a sample inside the raster is read
CommandSample ==
    /\ call.fn \in ProfileFns /\ call.step = "sample"
    /\ \E read_ok \in BOOLEAN :
          LET result == ProfileBody(call.fn, call.strip, call.nodata, call.coords,
                                    call.samples, read_ok)
              reads == IF ~result.ok \/ \E i \in 1..Len(result.val.points) :
                                           result.val.points[i].row \in 0..(Len(call.strip) - 1)
                       THEN <<"read_as">> ELSE <<>>
          IN  Return(result, reads)
    /\ UNCHANGED <<cacheVars, appVars>>

InitProfileCommand == OneCached /\ IdleApp /\ CommandInputs
NextProfileCommand ==
    \/ CommandGetPath
    \/ CommandOpen
    \/ CommandGeoTransform
    \/ CommandBand
    \/ CommandMeasure
    \/ CommandSample
SpecProfileCommand == InitProfileCommand /\ [][NextProfileCommand]_vars

\* the line of the request has zero length
ZeroLengthLine ==
    call.fn \in ProfileFns /\ SumSeq(SegmentLengths(call.fn, call.coords)) = 0

\* C21 as stated: in both profile commands a zero-length line is rejected before any I/O: the
\* request of such a line never opens the dataset nor reads its geotransform, band or pixels,
\* and it returns the zero-length error.
C21_Original ==
    ZeroLengthLine =>
        /\ call.io = <<>>
        /\ call.done => call.out = Err("Line has zero length")

\* a zero-length line is refused after the dataset was opened and its geotransform and band
\* were fetched
C21_Witness ==
    /\ ZeroLengthLine /\ call.done
    /\ call.fn = "get_elevation_profile"
    /\ call.out = Err("Line has zero length")
    /\ call.io = <<"Dataset::open", "geo_transform", "rasterband">>

\* what the code does keep: no pixel is read for a zero-length line
C21_NoPixelRead ==
    ZeroLengthLine => \A i \in 1..Len(call.io) : call.io[i] # "read_as"

-----------------------------------------------------------------------------
(* dataset_cache.rs: the mutex.  Each method locks `paths`, performs its one   *)
(* LruCache operation (a lookup of the map followed by its update) and drops   *)
(* the guard when it returns; the commands of raster.rs call the methods from  *)
(* parallel tasks, open_raster after its work on the dataset and the read      *)
(* commands before theirs.  call.owner is the task holding the mutex, 0 if     *)
(* none.                                                                       *)

MaxTasks == 3
MaxTaskIds == 2

Tasks == 1..MaxTasks
TaskIds == 1..MaxTaskIds
CacheMethods == {"add", "get_path", "remove"}
TaskCapacity == 1

NoTaskArg == [op |-> "none", id |-> 0, path |-> "", snap |-> <<>>]

\* Mutex::lock returns once no other task holds the guard
LockFreeMutNoExclusion(owner) == TRUE
LockFree(owner) == owner = 0

\* a command is invoked: open_raster works on the dataset and then calls add,
\* the read commands call get_path first, close_dataset calls remove
Invoke(t, op, id, path) ==
    /\ pc[t] = "idle"
    /\ arg' = [arg EXCEPT ![t] = [op |-> op, id |-> id, path |-> path, snap |-> <<>>]]
    /\ pc' = [pc EXCEPT ![t] = IF op = "add" THEN "open" ELSE "lock"]
    /\ UNCHANGED <<cacheVars, held, res, issued, call>>

\* open_raster before state.add: Dataset::open, bounds, statistics
OpenBeforeAdd(t) ==
    /\ pc[t] = "open"
    /\ pc' = [pc EXCEPT ![t] = "lock"]
    /\ UNCHANGED <<cacheVars, arg, held, res, issued, call>>

\* let mut cache = self.paths.lock().unwrap()
Acquire(t) ==
    /\ pc[t] = "lock"
    /\ LockFree(call.owner)
    /\ call' = [call EXCEPT !.owner = t]
    /\ pc' = [pc EXCEPT ![t] = "read"]
    /\ UNCHANGED <<cacheVars, arg, held, res, issued>>

\* the operation looks at the map
MapRead(t) ==
    /\ pc[t] = "read"
    /\ arg' = [arg EXCEPT ![t].snap = cache]
    /\ pc' = [pc EXCEPT ![t] = "write"]
    /\ UNCHANGED <<cacheVars, held, res, issued, call>>

\* the operation updates the map and yields its value
MapWrite(t) ==
    /\ pc[t] = "write"
    /\ LET a == arg[t] IN
         /\ cache' = CASE a.op = "add" -> AfterPut(a.snap, capacity, a.id, a.path)
                       [] a.op = "get_path" -> AfterGet(a.snap, a.id)
                       [] OTHER -> AfterPop(a.snap, a.id)
         /\ res' = [res EXCEPT ![t] = IF a.op = "get_path" THEN PeekPath(a.snap, a.id) ELSE None]
    /\ pc' = [pc EXCEPT ![t] = "unlock"]
    /\ UNCHANGED <<capacity, clock, lastUsed, lastOp, arg, held, issued, call>>

\* the method returns and the guard is dropped; a read command that got a path
\* goes on to work on the dataset
Release(t) ==
    /\ pc[t] = "unlock"
    /\ call' = [call EXCEPT !.owner = IF @ = t THEN 0 ELSE @]
    /\ pc' = [pc EXCEPT ![t] = IF arg[t].op = "get_path" /\ res[t] # None THEN "work" ELSE "done"]
    /\ UNCHANGED <<cacheVars, arg, held, res, issued>>

\* a read command after get_path: Dataset::open, reads, reprojection
WorkAfterGetPath(t) ==
    /\ pc[t] = "work"
    /\ pc' = [pc EXCEPT ![t] = "done"]
    /\ UNCHANGED <<cacheVars, arg, held, res, issued, call>>

InitTasks ==
    /\ EmptyCache(TaskCapacity)
    /\ pc = [t \in Tasks |-> "idle"]
    /\ arg = [t \in Tasks |-> NoTaskArg]
    /\ held = <<>>
    /\ res = [t \in Tasks |-> None]
    /\ issued = 0
    /\ call = [fn |-> "mutex", owner |-> 0]

NextTasks ==
    \/ \E t \in Tasks, id \in TaskIds, path \in Paths : Invoke(t, "add", id, path)
    \/ \E t \in Tasks, op \in CacheMethods \ {"add"}, id \in TaskIds : Invoke(t, op, id, "")
    \/ \E t \in Tasks : OpenBeforeAdd(t)
    \/ \E t \in Tasks : Acquire(t)
    \/ \E t \in Tasks : MapRead(t)
    \/ \E t \in Tasks : MapWrite(t)
    \/ \E t \in Tasks : Release(t)
    \/ \E t \in Tasks : WorkAfterGetPath(t)

SpecTasks == InitTasks /\ [][NextTasks]_vars

\* the calls made one after the other in the order `order`, from the empty cache:
\* the cache they leave and the value each returns
RECURSIVE Sequential(_, _, _)
Sequential(order, k, c) ==
    IF k > Len(order) THEN [cache |-> c, ret |-> <<>>]
    ELSE LET a == arg[order[k]]
             next == CASE a.op = "add" ->
                            IF \E i \in 1..Len(c) : c[i].id = a.id
                            THEN <<[id |-> a.id, path |-> a.path]>>
                                     \o SelectSeq(c, LAMBDA e : e.id # a.id)
                            ELSE <<[id |-> a.id, path |-> a.path]>>
                                     \o SubSeq(c, 1, IF Len(c) >= capacity THEN capacity - 1 ELSE Len(c))
                      [] a.op = "get_path" ->
                            SelectSeq(c, LAMBDA e : e.id = a.id) \o SelectSeq(c, LAMBDA e : e.id # a.id)
                      [] OTHER -> SelectSeq(c, LAMBDA e : e.id # a.id)
             found == SelectSeq(c, LAMBDA e : e.id = a.id)
             value == IF a.op = "get_path" /\ found # <<>> THEN Some(found[1].path) ELSE None
             rest == Sequential(order, k + 1, next)
         IN  [cache |-> rest.cache, ret |-> <<value>> \o rest.ret]

Orders == {o \in [Tasks -> Tasks] : \A s, t \in Tasks : o[s] = o[t] => s = t}

AllReturned == \A t \in Tasks : pc[t] = "done"

Serializable ==
    \E o \in Orders :
        LET run == Sequential(o, 1, <<>>)
        IN  /\ run.cache = cache
            /\ \A k \in Tasks : run.ret[k] = res[o[k]]

InCriticalSection(t) == pc[t] \in {"read", "write", "unlock"}

\* C22: under any interleaving of concurrent add, get_path and remove calls each call takes
\* effect atomically (once all have returned, the values returned and the cache content are
\* those of some sequential order of the calls), and the lock is held only for the map
\* operation: the holder is inside its cache method, a task that is opening or reading a
\* dataset holds no lock, at most one task is inside a cache method, so a task waiting for
\* the lock waits only for another task's map operation.
C22_AtomicShortLock ==
    /\ AllReturned => Serializable
    /\ \A t \in Tasks :
          /\ InCriticalSection(t) <=> call.owner = t
          /\ pc[t] \in {"open", "work"} => call.owner # t
    /\ call.owner # 0 => InCriticalSection(call.owner)

\* one task is working on the dataset of id 1 while another, having waited for nothing but
\* the lock, is inside the cache for id 2 and a third has been evicted and evicts in turn
C22_Witness ==
    /\ pc[1] = "work" /\ arg[1].id = 1
    /\ pc[2] = "write" /\ arg[2].op = "add" /\ arg[2].id = 2 /\ call.owner = 2
    /\ pc[3] = "done" /\ arg[3].op = "add" /\ arg[3].id = 1

\* all three calls have returned, a lookup among them having hit
C22_WitnessReturned ==
    /\ AllReturned
    /\ \E t \in Tasks : arg[t].op = "get_path" /\ res[t] # None
    /\ \E t \in Tasks : arg[t].op = "remove"

-----------------------------------------------------------------------------
(* the shape of a profile: count, distances and end points of the samples *)

\* the sum of the lengths of the segments of the call's line on the column
RECURSIVE LineLength(_)
LineLength(coords) ==
    IF Len(coords) < 2 THEN 0
    ELSE Abs(coords[2] - coords[1]) + LineLength(Tail(coords))

\* the fraction <<num, den>> is the number a / b
IsFraction(f, a, b) == f[1] # NaN /\ f[2] # 0 /\ b # 0 /\ f[1] * b = a * f[2]

\* fraction f is at most fraction g (denominators positive)
FractionLeq(f, g) == f[1] # NaN /\ g[1] # NaN /\ f[1] * g[2] <= g[1] * f[2]

\* C23 as stated: every successful profile with sample count S holds exactly S points, point
\* i is at distance i * totalLength / (S - 1), the distances never decrease, the first point
\* is on the first waypoint at distance 0, the last point on the final waypoint at distance
\* totalLength, and total_distance is the sum of the segment lengths.
C23_Original ==
    Profiled =>
        LET points == call.out.val.points
            S == call.samples
            total == LineLength(call.coords)
        IN  /\ Len(points) = S
            /\ call.out.val.total_distance = total
            /\ \A i \in 1..Len(points) : IsFraction(points[i].distance, (i - 1) * total, S - 1)
            /\ \A i \in 1..(Len(points) - 1) : FractionLeq(points[i].distance, points[i + 1].distance)
            /\ IsFraction(points[1].distance, 0, 1)
            /\ IsFraction(points[1].at, call.coords[1], 1)
            /\ IsFraction(points[S].distance, total, 1)
            /\ IsFraction(points[S].at, call.coords[Len(call.coords)], 1)

\* a successful profile of one sample: its only point has distance NaN and no position
C23_Witness ==
    /\ Profiled /\ call.samples = 1
    /\ Len(call.out.val.points) = 1
    /\ call.out.val.points[1].distance = <<NaN, 1>>
    /\ call.out.val.points[1].at = <<NaN, 1>>
    /\ call.out.val.points[1].row = 0

\* the line starts with a repeated waypoint
LeadingRepeat == Len(call.coords) >= 2 /\ call.coords[1] = call.coords[2]

\* with two samples or more and a first segment of positive length the profile has the
\* stated shape
C23_ShapeFromTwoSamples ==
    (Profiled /\ call.samples >= 2 /\ ~LeadingRepeat) => C23_Original

\* three samples on a line whose first two waypoints coincide: the first point is nowhere
C23_WitnessLeadingRepeat ==
    /\ Profiled /\ call.samples = 3 /\ LeadingRepeat
    /\ call.out.val.points[1].distance = <<0, 2>>
    /\ call.out.val.points[1].at = <<NaN, 1>>

-----------------------------------------------------------------------------
(* gdal/tile_extractor.rs: the two extractors of non-georeferenced images, on  *)
(* images of several sizes.  An image of 18000 columns spans 90 W to 90 E, so  *)
(* tiles of zoom 2 touch it on an edge; one of 20000 rows is clamped to 85     *)
(* degrees.  call.window is the window handed to read_as, None when no read    *)
(* was made.                                                                   *)

PixelWidths == {1, 2000, 18000, 36000}
PixelHeights == {1, 1000, 17000, 20000}
PixelTileFns == {"extract_raw_pixel_tile", "extract_pixel_tile"}

Image(width, height) ==
    [width |-> width, height |-> height, bands |-> 2, gt |-> None, proj |-> "",
     lons |-> <<>>, lats |-> <<>>, nodata |-> <<Some(3), None>>, seed |-> 2]

PixelTileInputs ==
    \E fn \in PixelTileFns, width \in PixelWidths, height \in PixelHeights,
       t \in Tiles, band \in BandArgs, s \in TileStretches :
        call = [fn |-> fn, image |-> Image(width, height), tile |-> t, band |-> band,
                stretch |-> s, window |-> None, done |-> FALSE, out |-> NoRes]

\* the window read_as is called with, if the extractor gets that far
WindowRead(ds, request) ==
    IF request.band \in 1..ds.bands THEN PixelWindow(ds, request) ELSE None

RawPixelTile ==
    /\ call.fn = "extract_raw_pixel_tile" /\ ~call.done
    /\ \E read_ok \in BOOLEAN :
          call' = [call EXCEPT
                     !.done = TRUE,
                     !.out = extract_raw_pixel_tile(call.image, TileRequest(call.tile, call.band),
                                                    read_ok),
                     !.window = WindowRead(call.image, TileRequest(call.tile, call.band))]
    /\ UNCHANGED <<cacheVars, appVars>>

PixelTile ==
    /\ call.fn = "extract_pixel_tile" /\ ~call.done
    /\ \E fail \in 0..1 :
          call' = [call EXCEPT
                     !.done = TRUE,
                     !.out = extract_pixel_tile(call.image, TileRequest(call.tile, call.band),
                                                call.stretch, fail),
                     !.window = WindowRead(call.image, TileRequest(call.tile, call.band))]
    /\ UNCHANGED <<cacheVars, appVars>>

InitPixelTile == EmptyCache(DefaultCapacity) /\ IdleApp /\ PixelTileInputs
NextPixelTile == RawPixelTile \/ PixelTile
SpecPixelTile == InitPixelTile /\ [][NextPixelTile]_vars

PixelRendered == call.fn \in PixelTileFns /\ call.done

\* the tile passes the intersection test of the call's image
PassesIntersection ==
    LET t == tile_to_geo_bounds(call.tile.x, call.tile.y, call.tile.z)
        hw == (call.image.width * Scale) \div 2
        hh == Min2((call.image.height * Scale) \div 2, ClampLat)
    IN  ~(t[3] < -hw \/ t[1] > hw \/ t[4] < -hh \/ t[2] > hh)

\* the clamped source rectangle of the call is empty or starts outside the image
EmptyRect ==
    LET rect == SourceRect(call.image, TileRequest(call.tile, call.band))
    IN  \/ rect[3] - rect[1] <= 0
        \/ rect[4] - rect[2] <= 0
        \/ rect[1] >= call.image.width
        \/ rect[2] >= call.image.height

\* the result without a read: the zero grid, or the transparent tile
BlankResult ==
    IF call.fn = "extract_raw_pixel_tile"
    THEN call.out = Ok([i \in 1..(TileSize * TileSize) |-> 0])
    ELSE IsTransparentTile(call.out)

\* C24 as stated: on the non-georeferenced path, whenever the source rectangle computed for
\* the tile has zero width or zero height after clamping to the image, or lies entirely
\* outside the image, no pixel is read and the result is the all-zero grid (the
\* all-transparent tile for extract_pixel_tile).
C24_Original ==
    (PixelRendered /\ PassesIntersection /\ EmptyRect) =>
        (call.window = None /\ BlankResult)

\* the tile of zoom 2 that ends at 90 W, on the image that starts there: the clamped
\* rectangle has no column, and a window one column wide is read
C24_Witness ==
    /\ PixelRendered /\ PassesIntersection /\ EmptyRect
    /\ call.image.width = 18000 /\ call.tile = [z |-> 2, x |-> 0, y |-> 1]
    /\ call.window # None /\ call.window[1][1] = 0 /\ call.window[1][3] = 1
    /\ call.fn = "extract_raw_pixel_tile" /\ call.out.ok /\ ~BlankResult

\* what the code keeps: a rectangle that starts at or beyond the right or bottom edge is
\* not read
C24_BeyondTheImageIsBlank ==
    LET rect == SourceRect(call.image, TileRequest(call.tile, call.band))
    IN  (PixelRendered /\ PassesIntersection
           /\ (rect[1] >= call.image.width \/ rect[2] >= call.image.height)) =>
            (call.window = None /\ BlankResult)

C24_WitnessBeyond ==
    /\ PixelRendered /\ PassesIntersection
    /\ call.image.width = 18000 /\ call.tile = [z |-> 2, x |-> 3, y |-> 1]
    /\ call.window = None /\ BlankResult

\* C30: on the non-georeferenced path, for every image size (clamped to 85 degrees or not)
\* and every tile that passes the intersection test, a window handed to the read primitive
\* lies inside the image: src_x >= 0, src_y >= 0, src_width >= 1, src_height >= 1,
\* src_x + src_width <= width and src_y + src_height <= height.
C30_WindowInsideImage ==
    (PixelRendered /\ call.window # None) =>
        LET w == call.window[1]
        IN  /\ PassesIntersection
            /\ w[1] >= 0 /\ w[2] >= 0 /\ w[3] >= 1 /\ w[4] >= 1
            /\ w[1] + w[3] <= call.image.width
            /\ w[2] + w[4] <= call.image.height

\* the tile of zoom 0 on the clamped image of 20000 rows: the whole image is read
C30_Witness ==
    /\ PixelRendered /\ call.image.height = 20000 /\ call.image.width = 36000
    /\ call.tile = [z |-> 0, x |-> 0, y |-> 0]
    /\ call.window = Some(<<0, 0, 36000, 20000>>)
    /\ call.out.ok

\* a tile that covers part of a row of an image one pixel high
C30_WitnessOnePixel ==
    /\ PixelRendered /\ call.image.height = 1 /\ call.image.width = 1
    /\ call.window = Some(<<0, 0, 1, 1>>)

-----------------------------------------------------------------------------
(* compute_histogram_bins: the bin of a counted value against the bin edges *)

\* the input values the histogram counts
Counted == Unmatched \cap Inside

\* floor((v - min) / (max - min) * (binCount - 1)) clamped to [0, binCount - 1]
ClaimedBin(v) ==
    LET raw == ((v - call.min) * (call.bin_count - 1)) \div (call.max - call.min)
    IN  IF raw < 0 THEN 0 ELSE IF raw > call.bin_count - 1 THEN call.bin_count - 1 ELSE raw

\* the counts are those of the values taken bin by bin with the claimed index
CountsFollowIndex ==
    \A b \in 0..(call.bin_count - 1) :
        call.out.counts[b + 1] = Cardinality({k \in Counted : ClaimedBin(call.values[k]) = b})

\* value number k lies between the edges of bin b
BetweenEdges(k, b) ==
    /\ call.out.bin_edges[b + 1] <= call.values[k] * EdgeScale
    /\ call.values[k] * EdgeScale <= call.out.bin_edges[b + 2]

\* C25 as stated: for max > min and bin_count >= 1 the counts and the edges describe the same
\* binning: every counted value v is counted in the bin i = floor((v - min) / (max - min) *
\* (bin_count - 1)), clamped to [0, bin_count - 1], and bin_edges[i] <= v <= bin_edges[i + 1];
\* in particular min is counted in bin 0 and max in bin bin_count - 1.
C25_Original ==
    (Binned /\ call.max > call.min) =>
        /\ CountsFollowIndex
        /\ \A k \in Counted : BetweenEdges(k, ClaimedBin(call.values[k]))
        /\ ClaimedBin(call.min) = 0
        /\ ClaimedBin(call.max) = call.bin_count - 1

\* 3 in a histogram of two bins over 0..4: counted in bin 0, whose edges are 0 and 2
C25_Witness ==
    /\ Binned /\ call.min = 0 /\ call.max = 4 /\ call.bin_count = 2
    /\ call.values = <<3>> /\ call.nodata = None
    /\ call.out.counts = <<1, 0>>
    /\ call.out.bin_edges = <<0, 2 * EdgeScale, 4 * EdgeScale>>
    /\ ~BetweenEdges(1, 0)

\* what the code keeps: the counts follow the index formula, min falls in bin 0 and max in
\* the last bin
C25_CountsFollowIndex ==
    (Binned /\ call.max > call.min) =>
        /\ CountsFollowIndex
        /\ ClaimedBin(call.min) = 0
        /\ ClaimedBin(call.max) = call.bin_count - 1

-----------------------------------------------------------------------------
(* commands/raster.rs, get_histogram: the size of the grid that is read.  The  *)
(* products width * scale and height * scale are f64; where the exact product  *)
(* is a whole number and scale = 1024 / max(width, height) is not a power of   *)
(* two, the rounding of scale can leave the f64 product one ulp short of it,   *)
(* and the cast to usize then gives one less (1122 * (1024.0 / 1122.0) casts   *)
(* to 1023, 49 * (1024.0 / 50176.0) to 0).  Which of the two happens depends   *)
(* on bits the integers here do not carry: it is drawn as `short`.             *)

MaxSampleSize == 1024
RasterSizes == {1, 2, 3, 49, 1000, 1024, 1025, 1122, 2048, 3072, 5000, 50176}

IsPowerOfTwo(n) == \E e \in 0..30 : n = 2 ^ e

\* (size as f64 * scale) as usize for scale = max_sample_size / larger
ScaledSize(size, larger, short) ==
    LET exact == size * MaxSampleSize
    IN  IF exact % larger = 0 /\ ~IsPowerOfTwo(larger) /\ short
        THEN exact \div larger - 1
        ELSE exact \div larger

\* (read_width, read_height)
ReadSize(width, height, short) ==
    IF width > MaxSampleSize \/ height > MaxSampleSize
    THEN <<ScaledSize(width, Max2(width, height), short),
           ScaledSize(height, Max2(width, height), short)>>
    ELSE <<width, height>>

DecimationInputs ==
    \E width \in RasterSizes, height \in RasterSizes :
        call = [fn |-> "get_histogram", width |-> width, height |-> height,
                done |-> FALSE, out |-> None]

GetHistogramReadSize ==
    /\ call.fn = "get_histogram" /\ ~call.done
    /\ \E short \in BOOLEAN : Returns(ReadSize(call.width, call.height, short))
    /\ UNCHANGED <<cacheVars, appVars>>

InitDecimation == EmptyCache(DefaultCapacity) /\ IdleApp /\ DecimationInputs
NextDecimation == GetHistogramReadSize
SpecDecimation == InitDecimation /\ [][NextDecimation]_vars

Decimated == call.fn = "get_histogram" /\ call.done

Larger == IF call.width >= call.height THEN call.width ELSE call.height

\* n is size * 1024 / larger cut to a whole number (or one less, see above)
ScaledFrom(n, size) ==
    n * Larger <= size * 1024 /\ size * 1024 <= (n + 1) * Larger

\* the read size is the raster size, or the raster size scaled by 1024 / larger
SizeKeptOrScaled ==
    IF call.width <= 1024 /\ call.height <= 1024
    THEN call.out = <<call.width, call.height>>
    ELSE ScaledFrom(call.out[1], call.width) /\ ScaledFrom(call.out[2], call.height)

\* C26 as stated: for every raster with width >= 1 and height >= 1 the grid get_histogram
\* reads has both dimensions between 1 and 1024: it is (width, height) when both are at most
\* 1024, and otherwise both are scaled by 1024 / max(width, height), the larger one becoming
\* at most 1024.
C26_Original ==
    Decimated =>
        /\ call.out[1] \in 1..1024 /\ call.out[2] \in 1..1024
        /\ SizeKeptOrScaled

\* a raster of 2048 x 1: the grid read is 1024 x 0
C26_Witness ==
    /\ Decimated /\ call.width = 2048 /\ call.height = 1
    /\ call.out = <<1024, 0>>

\* what the code keeps: no dimension above 1024, the size kept or scaled, and no dimension
\* of 0 unless the raster is at least 1024 times longer than it is wide (or wider than long)
C26_AtMost1024 ==
    Decimated =>
        /\ call.out[1] \in 0..1024 /\ call.out[2] \in 0..1024
        /\ SizeKeptOrScaled
        /\ (call.width * 1024 > Larger /\ call.height * 1024 > Larger)
              => (call.out[1] >= 1 /\ call.out[2] >= 1)

\* a raster of 5000 x 1000 is read as 1024 x 204
C26_WitnessScaled ==
    /\ Decimated /\ call.width = 5000 /\ call.height = 1000
    /\ call.out = <<1024, 204>>

-----------------------------------------------------------------------------
(* commands/raster.rs: a session of whole commands on a cache of two entries.  *)
(* A read command is its get_path calls (one per id, stopping at the first     *)
(* miss) followed by work that never touches the cache; open_raster adds a     *)
(* fresh id; close_dataset removes one.  lastUsed keeps, for each cached id,   *)
(* the time of its latest add or successful lookup.                            *)

SessionCapacity == 2
MaxSessionOpened == 3

SessionIds == 1..MaxSessionOpened

\* the get_path calls of a read command, in order
RECURSIVE Lookups(_, _, _, _)
Lookups(c, used, t, ids) ==
    IF ids = <<>> THEN [cache |-> c, used |-> used, clock |-> t, found |-> TRUE]
    ELSE IF ~Contains(c, Head(ids))
         THEN [cache |-> c, used |-> used, clock |-> t + 1, found |-> FALSE]
    ELSE Lookups(AfterGet(c, Head(ids)), [used EXCEPT ![Head(ids)] = t + 1], t + 1, Tail(ids))

\* a tile, statistics, histogram, pixel query or profile command
ReadCommand(cmd, ids) ==
    /\ clock + Len(ids) <= MaxOps
    /\ LET end == Lookups(cache, lastUsed, clock, ids)
       IN  /\ cache' = end.cache
           /\ lastUsed' = end.used
           /\ clock' = end.clock
           /\ lastOp' = [op |-> cmd, id |-> ids[1], path |-> "",
                         ret |-> IF end.found THEN Some("found") ELSE None,
                         dropped |-> CacheIdSet(cache) \ CacheIdSet(end.cache)]
    /\ UNCHANGED <<capacity, appVars, call>>

\* open_raster that succeeds: a fresh id is added
OpenRasterAdds(path) ==
    /\ clock < MaxOps /\ issued < MaxSessionOpened
    /\ issued' = issued + 1
    /\ cache' = AfterPut(cache, capacity, issued + 1, path)
    /\ lastOp' = [op |-> "open_raster", id |-> issued + 1, path |-> path, ret |-> None,
                  dropped |-> CacheIdSet(cache) \ CacheIdSet(cache')]
    /\ clock' = clock + 1
    /\ lastUsed' = Touch(lastUsed, cache', issued + 1)
    /\ UNCHANGED <<capacity, pc, arg, held, res, call>>

\* close_dataset
CloseDatasetRemoves(id) ==
    /\ clock < MaxOps
    /\ cache' = AfterPop(cache, id)
    /\ lastOp' = [op |-> "close_dataset", id |-> id, path |-> "", ret |-> None,
                  dropped |-> CacheIdSet(cache) \ CacheIdSet(cache')]
    /\ clock' = clock + 1
    /\ lastUsed' = Touch(lastUsed, cache', 0)
    /\ UNCHANGED <<capacity, appVars, call>>

InitSession == EmptyCache(SessionCapacity) /\ IdleApp /\ IdleCall
NextSession ==
    \/ \E cmd \in SingleCommands, id \in SessionIds : ReadCommand(cmd, <<id>>)
    \/ \E cmd \in CrossCommands, ids \in [1..3 -> SessionIds] : ReadCommand(cmd, ids)
    \/ \E path \in Paths : OpenRasterAdds(path)
    \/ \E id \in SessionIds : CloseDatasetRemoves(id)
SpecSession == InitSession /\ [][NextSession]_vars

Entries(c) == {c[i] : i \in 1..Len(c)}

\* the ids whose latest add or lookup is the oldest among the cached ones
LeastRecent(c, used) ==
    {id \in {c[i].id : i \in 1..Len(c)} : \A i \in 1..Len(c) : used[id] <= used[c[i].id]}

C27_Step ==
    /\ lastOp'.op \in SingleCommands \cup CrossCommands =>
          /\ Entries(cache') = Entries(cache) /\ Len(cache') = Len(cache)
          /\ lastOp'.dropped = {}
          \* the use times change only for ids that were looked up and found
          /\ \A id \in DOMAIN lastUsed :
                lastUsed'[id] # lastUsed[id] => lastUsed'[id] > clock
    /\ (lastOp'.op = "open_raster" /\ Len(cache) = capacity) =>
          /\ Cardinality(LeastRecent(cache, lastUsed)) = 1
          /\ {cache[i].id : i \in 1..Len(cache)} \ {cache'[i].id : i \in 1..Len(cache')}
                = LeastRecent(cache, lastUsed)

\* C27: a read command (tiles, statistics, histogram, pixel queries, profiles) never adds,
\* removes or changes a cache entry; its only effect is that an id it looked up and found
\* becomes the most recently used, so the entry an add to a full cache evicts is the one
\* whose latest add or lookup is oldest, and an entry that was requested after another
\* entry's latest use is not the victim.
C27_ReadsOnlyPromote == [][C27_Step]_vars

\* id 1 was opened first, then id 2, then id 1 was requested: opening a third raster has
\* evicted id 2 and kept id 1
C27_Witness ==
    /\ lastOp.op = "open_raster" /\ lastOp.id = 3 /\ lastOp.dropped = {2}
    /\ CacheIdSet(cache) = {1, 3}
    /\ lastUsed[1] = 3 /\ clock = 4

-----------------------------------------------------------------------------
(* commands/raster.rs open_raster and commands/stac.rs open_stac_asset, as     *)
(* concurrent requests beside close_dataset.  An href is kept in its parts;    *)
(* the path that is opened and cached is built from them as the code does.     *)

MaxOpeners == 2
MaxOpenerIssued == 3
OpenerCapacity == 2

Openers == 1..MaxOpeners

Hrefs ==
    {[prefix |-> p, scheme |-> "https", host |-> h, key |-> "a.tif"] :
        p \in {"", "/vsicurl/"}, h \in {"h.org", "pc.blob.core.windows.net"}}
    \cup {[prefix |-> "", scheme |-> "s3", host |-> b, key |-> "a.tif"] :
            b \in {"sentinel-cogs", "usgs-landsat", "open-data"}}

RequesterPaysBuckets ==
    {"sentinel-s2-l2a", "usgs-landsat", "sentinel-s1-l1c", "sentinel-s2-l1c",
     "copernicus-dem-30m", "copernicus-dem-90m"}

\* clean_href.contains(".blob.core.windows.net")
NeedsSigning(href) == href.host = "pc.blob.core.windows.net"

\* http_href: the prefix stripped, a Planetary Computer URL replaced by the signed href the
\* service returns (written here as the URL with a token), an s3 URL of a public bucket
\* turned into its https form
HttpHref(href) ==
    IF href.scheme = "s3"
    THEN IF href.host = "sentinel-cogs"
         THEN "https://" \o href.host \o ".s3.us-west-2.amazonaws.com/" \o href.key
         ELSE "https://" \o href.host \o ".s3.amazonaws.com/" \o href.key
    ELSE href.scheme \o "://" \o href.host \o "/" \o href.key
            \o (IF NeedsSigning(href) THEN "?token" ELSE "")

\* format!("/vsicurl/{}", http_href)
VsicurlPath(href) == "/vsicurl/" \o HttpHref(href)

\* uuid::Uuid::new_v4(): an id no earlier call was given
FreshIdMutReused(n) == 1
FreshId(n) == n + 1

NoOpenerArg == [cmd |-> "", path |-> ""]

\* open_raster up to Dataset::open
OpenerRaster(r, path) ==
    /\ pc[r] = "idle"
    /\ arg' = [arg EXCEPT ![r] = [cmd |-> "open_raster", path |-> path]]
    /\ \E opened \in BOOLEAN :
          IF opened
          THEN pc' = [pc EXCEPT ![r] = "bounds"] /\ res' = res
          ELSE /\ pc' = [pc EXCEPT ![r] = "done"]
               /\ res' = [res EXCEPT ![r] = Err("Failed to open raster")]
    /\ UNCHANGED <<cacheVars, held, issued, call>>

\* open_stac_asset up to the spawned open: signing, the requester-pays refusal
OpenerStac(r, href) ==
    /\ pc[r] = "idle"
    /\ arg' = [arg EXCEPT ![r] = [cmd |-> "open_stac_asset", path |-> VsicurlPath(href)]]
    /\ \E signed \in BOOLEAN :
          IF NeedsSigning(href) /\ ~signed
          THEN /\ pc' = [pc EXCEPT ![r] = "done"]
               /\ res' = [res EXCEPT ![r] = Err("Failed to sign URL")]
          ELSE IF href.scheme = "s3" /\ href.host \in RequesterPaysBuckets
          THEN /\ pc' = [pc EXCEPT ![r] = "done"]
               /\ res' = [res EXCEPT ![r] = Err("This asset is stored in a requester-pays S3 bucket")]
          ELSE pc' = [pc EXCEPT ![r] = "remote_open"] /\ res' = res
    /\ UNCHANGED <<cacheVars, held, issued, call>>

\* spawn_blocking(Dataset::open).await
OpenerRemote(r) ==
    /\ pc[r] = "remote_open"
    /\ \E outcome \in {"opened", "Task join error", "Cannot open remote COG"} :
          IF outcome = "opened"
          THEN pc' = [pc EXCEPT ![r] = "bounds"] /\ res' = res
          ELSE /\ pc' = [pc EXCEPT ![r] = "done"]
               /\ res' = [res EXCEPT ![r] = Err(outcome)]
    /\ UNCHANGED <<cacheVars, arg, held, issued, call>>

\* the rest of both commands: bounds (fallible), statistics, a new uuid, the metadata,
\* state.add(id, path), Ok(metadata)
OpenerRegister(r) ==
    /\ pc[r] = "bounds"
    /\ \E bounds_ok \in BOOLEAN :
          IF bounds_ok
          THEN /\ issued < MaxOpenerIssued
               /\ issued' = issued + 1
               /\ cache' = AfterPut(cache, capacity, FreshId(issued), arg[r].path)
               /\ res' = [res EXCEPT ![r] = Ok([id |-> FreshId(issued), path |-> arg[r].path])]
          ELSE /\ issued' = issued
               /\ cache' = cache
               /\ res' = [res EXCEPT ![r] = Err("Failed to get geotransform")]
    /\ pc' = [pc EXCEPT ![r] = "done"]
    /\ UNCHANGED <<capacity, clock, lastUsed, lastOp, arg, held, call>>

\* close_dataset by another request
OpenerClose(id) ==
    /\ Contains(cache, id)
    /\ cache' = AfterPop(cache, id)
    /\ UNCHANGED <<capacity, clock, lastUsed, lastOp, appVars, call>>

\* the response is delivered
OpenerFinish(r) ==
    /\ pc[r] = "done"
    /\ pc' = [pc EXCEPT ![r] = "idle"]
    /\ arg' = [arg EXCEPT ![r] = NoOpenerArg]
    /\ res' = [res EXCEPT ![r] = NoRes]
    /\ UNCHANGED <<cacheVars, held, issued, call>>

InitOpeners ==
    /\ EmptyCache(OpenerCapacity)
    /\ pc = [r \in Openers |-> "idle"]
    /\ arg = [r \in Openers |-> NoOpenerArg]
    /\ held = <<>>
    /\ res = [r \in Openers |-> NoRes]
    /\ issued = 0
    /\ IdleCall

NextOpeners ==
    \/ \E r \in Openers, path \in Paths : OpenerRaster(r, path)
    \/ \E r \in Openers, href \in Hrefs : OpenerStac(r, href)
    \/ \E r \in Openers : OpenerRemote(r)
    \/ \E r \in Openers : OpenerRegister(r)
    \/ \E id \in 1..MaxOpenerIssued : OpenerClose(id)
    \/ \E r \in Openers : OpenerFinish(r)

SpecOpeners == InitOpeners /\ [][NextOpeners]_vars

\* request r takes a step of its open command
OpenerSteps(r) == pc[r] # "done" /\ <<pc'[r], arg'[r], res'[r]>> # <<pc[r], arg[r], res[r]>>

CachedPairs(c) == {<<c[i].id, c[i].path>> : i \in 1..Len(c)}

C28_Step ==
    \A r \in Openers :
        OpenerSteps(r) =>
            \* a step that does not return a success leaves the cache as it is
            /\ ~(pc'[r] = "done" /\ res'[r].ok) => cache' = cache
            \* a success has added one pair, of an id that was not cached, and returns it
            /\ (pc'[r] = "done" /\ res'[r].ok) =>
                  /\ CachedPairs(cache') \ CachedPairs(cache)
                        = {<<res'[r].val.id, res'[r].val.path>>}
                  /\ \A i \in 1..Len(cache) : cache[i].id # res'[r].val.id
                  /\ Len(cache') = (IF Len(cache) = capacity THEN Len(cache) ELSE Len(cache) + 1)

\* C28: open_raster and open_stac_asset change the cache only on success: a step of either
\* that fails (open, signing, requester-pays refusal, bounds) or has not yet succeeded leaves
\* the cache exactly as it was, no id registered and nothing evicted; a success adds exactly
\* one new id -> path entry, and its id is the one returned in the metadata.
C28_CacheChangesOnlyOnSuccess ==
    /\ [][C28_Step]_vars
    /\ [](\A r \in Openers :
            (pc[r] = "done" /\ ~res[r].ok) =>
                \A i \in 1..Len(cache) : cache[i].id <= issued)

\* a remote asset of a public bucket has been registered under its https path, on a full
\* cache, while the other request has failed on its bounds
C28_Witness ==
    /\ pc[1] = "done" /\ arg[1].cmd = "open_stac_asset" /\ res[1].ok
    /\ res[1].val = [id |-> 3, path |-> "/vsicurl/https://sentinel-cogs.s3.us-west-2.amazonaws.com/a.tif"]
    /\ Len(cache) = 2 /\ cache[1] = res[1].val
    /\ pc[2] = "done" /\ arg[2].cmd = "open_raster" /\ res[2] = Err("Failed to get geotransform")

-----------------------------------------------------------------------------
(* the segments the samples of a profile are interpolated on *)

\* sample number i of the returned profile was interpolated on a segment of positive length,
\* at a place between the two ends of that segment, or was put on the final waypoint
OnThePolyline(i) ==
    LET point == call.out.val.points[i]
        k == point.seg + 1
    IN  IF k >= Len(call.coords)
        THEN point.at = <<call.coords[Len(call.coords)], 1>>
        ELSE /\ call.coords[k] # call.coords[k + 1]
             /\ point.at[1] # NaN /\ point.at[2] > 0
             /\ \/ /\ call.coords[k] * point.at[2] <= point.at[1]
                   /\ point.at[1] <= call.coords[k + 1] * point.at[2]
                \/ /\ call.coords[k + 1] * point.at[2] <= point.at[1]
                   /\ point.at[1] <= call.coords[k] * point.at[2]

\* C29 as stated: for every polyline of positive total length, zero-length segments at the
\* start, in the middle or at the end included, every sample is interpolated on a segment of
\* positive length with a progress in [0, 1] or is placed on the final waypoint: no position
\* comes from a division by zero and every position lies on the polyline.
C29_Original ==
    Profiled =>
        \A i \in 1..Len(call.out.val.points) : OnThePolyline(i)

\* two samples on the line 1, 1, 2: the first is interpolated on the first segment, of
\* length 0, has no position, and reads row 0 of the raster
C29_Witness ==
    /\ Profiled /\ call.fn = "get_elevation_profile_pixels"
    /\ call.coords = <<1, 1, 2>> /\ call.samples = 2
    /\ call.out.val.points[1].seg = 0
    /\ call.out.val.points[1].at = <<NaN, 1>>
    /\ call.out.val.points[1].row = 0
    /\ call.out.val.points[1].is_valid
    /\ call.out.val.points[2].at = <<2, 1>>

\* a repeated waypoint in the middle or at the end is skipped by the segment search: unless
\* the line starts with one, every sample lies on a segment of positive length
C29_RepeatsAfterTheStart ==
    (Profiled /\ call.samples >= 2 /\ ~LeadingRepeat) =>
        \A i \in 1..Len(call.out.val.points) : OnThePolyline(i)

\* three samples on the line 0, 2, 2 whose last segment has length 0
C29_WitnessTrailingRepeat ==
    /\ Profiled /\ call.coords = <<0, 2, 2>> /\ call.samples = 3
    /\ \A i \in 1..3 : OnThePolyline(i)
    /\ call.out.val.points[3].at[1] = 2 * call.out.val.points[3].at[2]

====
